---- MODULE Spec2Model ----
(***************************************************************************)
(* DC circuit solver (Modified Nodal Analysis) of the circuits repository: *)
(*   solveLinearSystem      (core/solver/linalg, src/unnamed/part_004)     *)
(*   solveCircuitMNA, voltageDiff, equivalentResistanceAB                  *)
(*                          (src/src/core/solver/mna.ts)                   *)
(*                                                                         *)
(* A JavaScript number is modelled in one of two formats, fixed for a run  *)
(* by the variable format:                                                 *)
(*   "exact"   a rational <<num, den>> in lowest terms, den > 0: the       *)
(*             arithmetic of the circuit equations, without rounding;      *)
(*   "double"  an IEEE 754 binary64 value [neg, m, e] of value             *)
(*             (-1)^neg * m * 2^e with a 53-bit significand m (m empty for *)
(*             zero), every operation rounded to nearest, ties to even.    *)
(*             The exponent is unbounded: overflow, subnormal numbers,     *)
(*             the sign of zero, NaN and the infinities are not modelled.  *)
(*                                                                         *)
(* Arrays are 1-based sequences: index i of the model is index i-1 of the  *)
(* code.  A thrown Error is modelled by its kind:                          *)
(*   "Circuit must have at least 2 nodes"   InsufficientNodes              *)
(*   "refNode ... not in circuit.nodes"     InvalidReferenceNode           *)
(*   "Resistor ... has non-positive ohms"   InvalidElement                 *)
(*   "Singular matrix"                      SingularMatrix                 *)
(*   "A must be square", "b length mismatch" DimensionMismatch             *)
(***************************************************************************)
EXTENDS Integers, Sequences, FiniteSets, TLC

VARIABLES
    format,    \* number format of the run: "exact" or "double"
    pc,        \* "ready" before the call, then the entry point that ran
    linA,      \* argument A of solveLinearSystem
    linB,      \* argument b of solveLinearSystem
    circuit,   \* argument circuit: [nodes, elements]
    opts,      \* argument opts of solveCircuitMNA: [refNode]
    termA,     \* argument A of equivalentResistanceAB
    termB,     \* argument B of equivalentResistanceAB
    targets,   \* argument targets of validateAnswers
    answers,   \* argument answers of validateAnswers
    appState,  \* argument state of encodeState
    result,    \* outcome of the last call
    calls      \* the calls made so far, with their arguments and outcomes

vars == <<format, pc, linA, linB, circuit, opts, termA, termB, targets, answers,
          appState, result, calls>>

----------------------------------------------------------------------------
(* Exact numbers: rationals *)

RECURSIVE GCD(_, _)
GCD(x, y) == IF y = 0 THEN x ELSE GCD(y, x % y)

IAbs(i) == IF i < 0 THEN -i ELSE i

\* the rational n/d (d # 0) in lowest terms with a positive denominator
Norm(n, d) ==
    LET g == GCD(IAbs(n), IAbs(d))
        s == IF d < 0 THEN -1 ELSE 1
    IN  <<(s * n) \div g, (s * d) \div g>>

Rat(i) == <<i, 1>>
Zero == Rat(0)
One == Rat(1)

RAdd(x, y) == Norm(x[1] * y[2] + y[1] * x[2], x[2] * y[2])
RSub(x, y) == Norm(x[1] * y[2] - y[1] * x[2], x[2] * y[2])
RMul(x, y) == Norm(x[1] * y[1], x[2] * y[2])
RDiv(x, y) == Norm(x[1] * y[2], x[2] * y[1])
RNeg(x) == <<-x[1], x[2]>>
RLess(x, y) == x[1] * y[2] < y[1] * x[2]
RAbs(x) == <<IAbs(x[1]), x[2]>>

----------------------------------------------------------------------------
(* Natural numbers of any size, for the significands of doubles: sequences  *)
(* of limbs in 0..Base-1, least significant first, no leading zero limb     *)

LimbBits == 15
Base == 2^LimbBits

RECURSIVE BTrim(_)
BTrim(a) ==
    IF Len(a) > 0 /\ a[Len(a)] = 0 THEN BTrim(SubSeq(a, 1, Len(a) - 1)) ELSE a

BLimb(a, i) == IF 1 <= i /\ i <= Len(a) THEN a[i] ELSE 0

RECURSIVE BFromInt(_)
BFromInt(n) == IF n = 0 THEN <<>> ELSE <<n % Base>> \o BFromInt(n \div Base)

\* the number with the coefficients c[i] of Base^(i-1), each with the carry
\* from below in -Base..Base * Base
RECURSIVE BCarry(_, _, _)
BCarry(c, i, carry) ==
    IF i > Len(c) THEN (IF carry = 0 THEN <<>> ELSE <<carry>>)
    ELSE <<(c[i] + carry) % Base>> \o BCarry(c, i + 1, (c[i] + carry) \div Base)

BAdd(a, b) ==
    LET n == IF Len(a) < Len(b) THEN Len(b) ELSE Len(a)
    IN  BCarry([i \in 1..n |-> BLimb(a, i) + BLimb(b, i)] \o <<>>, 1, 0)

\* a - b for a >= b
BSub(a, b) == BTrim(BCarry([i \in 1..Len(a) |-> a[i] - BLimb(b, i)] \o <<>>, 1, 0))

\* -1, 0 or 1 as a < b, a = b or a > b
RECURSIVE BCmpFrom(_, _, _)
BCmpFrom(a, b, i) ==
    IF i = 0 THEN 0
    ELSE IF a[i] < b[i] THEN -1
    ELSE IF a[i] > b[i] THEN 1
    ELSE BCmpFrom(a, b, i - 1)
BCmp(a, b) ==
    IF Len(a) < Len(b) THEN -1
    ELSE IF Len(a) > Len(b) THEN 1
    ELSE BCmpFrom(a, b, Len(a))

\* a * Base^k
BShiftLimbs(a, k) == IF Len(a) = 0 THEN a ELSE [i \in 1..k |-> 0] \o a

\* the sum over i of the low (high) halves of the products a[i] * b[k + 1 - i]
RECURSIVE ColumnSum(_, _, _, _, _)
ColumnSum(a, b, k, i, high) ==
    IF i > Len(a) THEN 0
    ELSE LET j == k + 1 - i
             p == IF j >= 1 /\ j <= Len(b) THEN a[i] * b[j] ELSE 0
         IN  (IF high THEN p \div Base ELSE p % Base) + ColumnSum(a, b, k, i + 1, high)

BMul(a, b) ==
    BTrim(BCarry([k \in 1..(Len(a) + Len(b)) |->
                     ColumnSum(a, b, k, 1, FALSE) + ColumnSum(a, b, k - 1, 1, TRUE)]
                     \o <<>>, 1, 0))

\* a * k for one limb k
BMulLimb(a, k) == BTrim(BCarry([i \in 1..Len(a) |-> a[i] * k] \o <<>>, 1, 0))

\* a * 2^k
BShl(a, k) ==
    LET w == k \div LimbBits
        p == 2^(k % LimbBits)
    IN  IF Len(a) = 0 THEN a
        ELSE BTrim([i \in 1..(Len(a) + w + 1) |->
                       IF i <= w THEN 0
                       ELSE ((BLimb(a, i - w) * p) % Base)
                                + ((BLimb(a, i - w - 1) * p) \div Base)] \o <<>>)

\* floor(a / 2^k)
BShr(a, k) ==
    LET w == k \div LimbBits
        r == k % LimbBits
        hi == IF w >= Len(a) THEN <<>> ELSE SubSeq(a, w + 1, Len(a))
    IN  BTrim([i \in 1..Len(hi) |->
                  (hi[i] \div 2^r) + (BLimb(hi, i + 1) % 2^r) * 2^(LimbBits - r)] \o <<>>)

\* the number of bits of a
BBitLen(a) ==
    IF Len(a) = 0 THEN 0
    ELSE (Len(a) - 1) * LimbBits
             + (CHOOSE k \in 1..LimbBits : 2^(k - 1) <= a[Len(a)] /\ a[Len(a)] < 2^k)

\* bit j of a, counted from 0, and whether the bits below bit j are all 0
BBit(a, j) == (BLimb(a, j \div LimbBits + 1) \div 2^(j % LimbBits)) % 2
BLowZero(a, j) ==
    /\ \A i \in 1..(j \div LimbBits) : BLimb(a, i) = 0
    /\ BLimb(a, j \div LimbBits + 1) % 2^(j % LimbBits) = 0

BOdd(a) == Len(a) > 0 /\ a[1] % 2 = 1

\* floor(a / 2)
BHalf(a) == BShr(a, 1)

----------------------------------------------------------------------------
(* Doubles: IEEE 754 binary64 arithmetic, round to nearest, ties to even *)

Precision == 53

FZero == [neg |-> FALSE, m |-> <<>>, e |-> 0]

\* q = floor(M / 2^k) rounded to nearest, ties to even: one more when the
\* k bits dropped are more than half, or are half and q is odd
RoundNearestEven(M, q, k) ==
    IF BBit(M, k - 1) = 1 /\ (~BLowZero(M, k - 1) \/ BOdd(q)) THEN BAdd(q, <<1>>)
    ELSE q

\* a significand that rounding has carried to Precision + 1 bits is halved
Normalized(neg, m, e) ==
    IF BBitLen(m) > Precision THEN [neg |-> neg, m |-> BHalf(m), e |-> e + 1]
    ELSE [neg |-> neg, m |-> m, e |-> e]

FRoundBits(neg, M, e, L) ==
    IF L = 0 THEN FZero
    ELSE IF L <= Precision
    THEN [neg |-> neg, m |-> BShl(M, Precision - L), e |-> e - (Precision - L)]
    ELSE Normalized(neg, RoundNearestEven(M, BShr(M, L - Precision), L - Precision),
                    e + (L - Precision))

\* the double nearest to (-1)^neg * M * 2^e for a natural number M
FRound(neg, M, e) == FRoundBits(neg, M, e, BBitLen(M))

FromInt(i) == FRound(i < 0, BFromInt(IAbs(i)), 0)

FNeg(x) == IF Len(x.m) = 0 THEN x ELSE [x EXCEPT !.neg = ~x.neg]
FAbs(x) == [x EXCEPT !.neg = FALSE]

\* the sum of (-1)^xneg * a * 2^e and (-1)^yneg * b * 2^e
FAddAligned(xneg, yneg, a, b, e) ==
    LET c == BCmp(a, b)
    IN  FRound(IF xneg = yneg \/ c = 1 THEN xneg ELSE yneg,
               IF xneg = yneg THEN BAdd(a, b)
               ELSE IF c = 1 THEN BSub(a, b) ELSE BSub(b, a),
               e)

FAdd(x, y) ==
    IF Len(x.m) = 0 THEN y
    ELSE IF Len(y.m) = 0 THEN x
    ELSE LET e == IF x.e < y.e THEN x.e ELSE y.e
         IN  FAddAligned(x.neg, y.neg, BShl(x.m, x.e - e), BShl(y.m, y.e - e), e)

FSub(x, y) == FAdd(x, FNeg(y))

FMul(x, y) ==
    IF Len(x.m) = 0 \/ Len(y.m) = 0 THEN FZero
    ELSE FRound(x.neg # y.neg, BMul(x.m, y.m), x.e + y.e)

\* the estimate of one limb of the quotient of R by D from their leading
\* limbs, for R < D * Base and a divisor with a full top limb: it is the
\* limb or at most 2 more
Estimate(R, D) ==
    LET est == (BLimb(R, Len(D) + 1) * Base + BLimb(R, Len(D))) \div D[Len(D)]
    IN  IF est > Base - 1 THEN Base - 1 ELSE est

\* the long division by D of the limbs i down to 1 of N below the remainder
\* rem: each limb of the quotient is found from its estimate d and put before
\* the limbs q found so far
RECURSIVE DivLimbs(_, _, _, _, _)
RECURSIVE DivDigit(_, _, _, _, _, _)
DivDigit(q, R, N, D, i, d) ==
    IF BCmp(BMulLimb(D, d), R) <= 0
    THEN DivLimbs(<<d>> \o q, BSub(R, BMulLimb(D, d)), N, D, i - 1)
    ELSE DivDigit(q, R, N, D, i, d - 1)
DivLimbs(q, rem, N, D, i) ==
    IF i = 0 THEN [q |-> q, rem |-> rem]
    ELSE DivDigit(q, BTrim(<<N[i]>> \o rem), N, D, i,
                  Estimate(BTrim(<<N[i]>> \o rem), D))

\* the quotient qr.q with a last bit set when the remainder is not 0, rounded
FQuotient(neg, qr, e) ==
    IF Len(qr.rem) = 0 THEN FRound(neg, BMulLimb(qr.q, 2), e)
    ELSE FRound(neg, BAdd(BMulLimb(qr.q, 2), <<1>>), e)

\* x / y for y # 0: the quotient of the significands to more than
\* Precision + 2 bits, then rounded.  Both significands are shifted so that
\* the divisor D fills its limbs, and the dividend N is taken limbs further
\* up: its leading limbs, one less than those of D, are less than D.
FDiv(x, y) ==
    IF Len(x.m) = 0 THEN FZero
    ELSE LET limbs == (Precision + 3) \div LimbBits + 1
             full == 2^(LimbBits * Len(y.m) - BBitLen(y.m))
             N == BShiftLimbs(BMulLimb(x.m, full), limbs)
             D == BMulLimb(y.m, full)
         IN  FQuotient(x.neg # y.neg,
                       DivLimbs(<<>>, BTrim(SubSeq(N, limbs + 2, Len(N))), N, D, limbs + 1),
                       x.e - y.e - limbs * LimbBits - 1)

\* x < y: the difference is exact in sign
FNegative(d) == d.neg /\ Len(d.m) > 0
FLess(x, y) == FNegative(FSub(x, y))

----------------------------------------------------------------------------
(* The numbers of the code, in the format of the run *)

Exact == format = "exact"

\* a number literal or an integer-valued input, and the literal 0
Num(i) == IF Exact THEN Rat(i) ELSE FromInt(i)
NumZero == IF Exact THEN Zero ELSE FZero

Add(x, y) == IF Exact THEN RAdd(x, y) ELSE FAdd(x, y)
Sub(x, y) == IF Exact THEN RSub(x, y) ELSE FSub(x, y)
Mul(x, y) == IF Exact THEN RMul(x, y) ELSE FMul(x, y)
Div(x, y) == IF Exact THEN RDiv(x, y) ELSE FDiv(x, y)
Neg(x) == IF Exact THEN RNeg(x) ELSE FNeg(x)

\* Math.abs
Abs(x) == IF Exact THEN RAbs(x) ELSE FAbs(x)

\* x < y, x <= y and x === 0
Less(x, y) == IF Exact THEN RLess(x, y) ELSE FLess(x, y)
Leq(x, y) == ~Less(y, x)
IsZero(x) == x = NumZero

----------------------------------------------------------------------------
(* solveLinearSystem *)

Err(kind) == [status |-> kind]

\* a number[] and a number[][] with every entry computed
Array(f) == f \o <<>>
Matrix(f) == Array([i \in 1..Len(f) |-> Array(f[i])])

\* const M = A.map((row, i) => [...row, b[i]])
Augment(A, b) == Array([i \in 1..Len(A) |-> Append(A[i], b[i])])

\* the pivot search: the first row r >= col of largest |M[r][col]|
RECURSIVE PivotScan(_, _, _, _, _, _)
PivotScan(M, n, col, r, pivotRow, pivotVal) ==
    IF r > n THEN <<pivotRow, pivotVal>>
    ELSE LET v == Abs(M[r][col])
         IN  IF Less(pivotVal, v) THEN PivotScan(M, n, col, r + 1, r, v)
             ELSE PivotScan(M, n, col, r + 1, pivotRow, pivotVal)

\* a faulty variant, for comparison: no pivot search, the diagonal entry is taken as it is
PivotDiagonal(M, n, col) == <<col, Abs(M[col][col])>>

\* a faulty variant, for comparison: the first row at or below the diagonal
\* with a nonzero entry in the column is taken
RECURSIVE FirstNonzero(_, _, _, _)
FirstNonzero(M, n, col, r) ==
    IF r > n THEN <<col, Abs(M[col][col])>>
    ELSE IF ~IsZero(M[r][col]) THEN <<r, Abs(M[r][col])>>
    ELSE FirstNonzero(M, n, col, r + 1)
PivotFirstNonzero(M, n, col) == FirstNonzero(M, n, col, col)

Pivot(M, n, col) == PivotScan(M, n, col, col + 1, col, Abs(M[col][col]))

\* if (pivotRow !== col) swap rows col and pivotRow
SwapRows(M, col, pivotRow) ==
    Array([r \in 1..Len(M) |-> IF r = col THEN M[pivotRow]
                               ELSE IF r = pivotRow THEN M[col] ELSE M[r]])

\* row r below the pivot row: if (factor === 0) continue;
\* for c = col..n: M[r][c] -= factor * M[col][c]
EliminateRow(M, n, col, r, factor) ==
    IF IsZero(factor) THEN M[r]
    ELSE [c \in 1..(n + 1) |->
             IF c < col THEN M[r][c] ELSE Sub(M[r][c], Mul(factor, M[col][c]))]

\* eliminate column col from the rows below the pivot row
Eliminate(M, n, col) ==
    Matrix([r \in 1..n |->
        IF r <= col THEN M[r]
        ELSE EliminateRow(M, n, col, r, Div(M[r][col], M[col][col]))])

\* the elimination loop from column col on, given the pivot p of the column:
\* the eliminated matrix, or singular when a pivot is zero
\* (throw new Error("Singular matrix"))
RECURSIVE Forward(_, _, _)
ForwardFrom(M, n, col, p) ==
    IF IsZero(p[2]) THEN [singular |-> TRUE, M |-> M]
    ELSE Forward(Eliminate(SwapRows(M, col, p[1]), n, col), n, col + 1)
Forward(M, n, col) ==
    IF col > n THEN [singular |-> FALSE, M |-> M]
    ELSE ForwardFrom(M, n, col, Pivot(M, n, col))

\* sum = M[i][n]; for j = i+1..n-1: sum -= M[i][j] * x[j]
RECURSIVE BackSum(_, _, _, _, _)
BackSum(M, x, i, j, sum) ==
    IF j > Len(M) THEN sum
    ELSE BackSum(M, x, i, j + 1, Sub(sum, Mul(M[i][j], x[j])))

\* back-substitution from row i up to row 1: x[i] = sum / M[i][i]
RECURSIVE BackSubst(_, _, _)
BackSubst(M, x, i) ==
    IF i = 0 THEN x
    ELSE BackSubst(M, [x EXCEPT ![i] = Div(BackSum(M, x, i, i + 1, M[i][Len(M) + 1]),
                                           M[i][i])], i - 1)

\* the outcome after the elimination f of the n equations
BackSolved(f, n) ==
    IF f.singular THEN Err("SingularMatrix")
    ELSE [status |-> "ok", x |-> BackSubst(f.M, Array([i \in 1..n |-> NumZero]), n)]

\* a faulty variant, for comparison: only rows shorter than n are refused
solveLinearSystemShortRows(A, b) ==
    LET n == Len(A)
    IN  IF \E i \in 1..n : Len(A[i]) < n THEN Err("DimensionMismatch")
        ELSE IF Len(b) # n THEN Err("DimensionMismatch")
        ELSE BackSolved(Forward(Augment(A, b), n, 1), n)

solveLinearSystem(A, b) ==
    LET n == Len(A)
    IN  IF \E i \in 1..n : Len(A[i]) # n THEN Err("DimensionMismatch")
        ELSE IF Len(b) # n THEN Err("DimensionMismatch")
        ELSE BackSolved(Forward(Augment(A, b), n, 1), n)

----------------------------------------------------------------------------
(* solveCircuitMNA *)

undefined == "undefined"

Range(s) == {s[i] : i \in 1..Len(s)}

\* the elements of kind "R", "V", "I": [kind, id, a, b] and ohms, volts, amps
Resistor(id, a, b, ohms) == [kind |-> "R", id |-> id, a |-> a, b |-> b, ohms |-> ohms]
VSource(id, a, b, volts) == [kind |-> "V", id |-> id, a |-> a, b |-> b, volts |-> volts]
ISource(id, a, b, amps) == [kind |-> "I", id |-> id, a |-> a, b |-> b, amps |-> amps]

preferred == <<"0", "GND", "gnd", "ref", "REF">>

\* for (const p of preferred) if (nodes.includes(p)) return p; return nodes[0]
RECURSIVE pickRefFrom(_, _)
pickRefFrom(nodes, i) ==
    IF i > Len(preferred) THEN (IF Len(nodes) = 0 THEN undefined ELSE nodes[1])
    ELSE IF preferred[i] \in Range(nodes) THEN preferred[i]
    ELSE pickRefFrom(nodes, i + 1)

\* a faulty variant, for comparison: the first node of nodes that is a preferred name
RECURSIVE pickByNodeOrder(_, _)
pickByNodeOrder(nodes, i) ==
    IF i > Len(nodes) THEN (IF Len(nodes) = 0 THEN undefined ELSE nodes[1])
    ELSE IF nodes[i] \in Range(preferred) THEN nodes[i]
    ELSE pickByNodeOrder(nodes, i + 1)
pickRefNodeByNodeOrder(nodes) == pickByNodeOrder(nodes, 1)

pickRefNode(nodes) == pickRefFrom(nodes, 1)

\* a faulty variant, for comparison: an override that is no node falls back to the automatic choice
refNodeOfFallback(nodes, o) ==
    IF o.refNode # undefined /\ o.refNode \in Range(nodes) THEN o.refNode
    ELSE pickRefNode(nodes)

\* opts.refNode ?? pickRefNode(nodes)
refNodeOf(nodes, o) ==
    IF o.refNode # undefined THEN o.refNode ELSE pickRefNode(nodes)

IsKind(e, k) == e.kind = k
IsV(e) == IsKind(e, "V")
IsNotRef(refNode, n) == n # refNode

\* a faulty variant, for comparison: the unknown nodes are indexed in reverse
voltageUnknownNodesReversed(nodes, refNode) ==
    LET keep(n) == IsNotRef(refNode, n)
        kept == SelectSeq(nodes, keep)
    IN  [i \in 1..Len(kept) |-> kept[Len(kept) + 1 - i]]

\* nodes.filter((n) => n !== refNode)
voltageUnknownNodesOf(nodes, refNode) ==
    LET keep(n) == IsNotRef(refNode, n) IN SelectSeq(nodes, keep)

\* circuit.elements.filter(e => e.kind === "V")
vSourcesOf(elements) == SelectSeq(elements, IsV)

\* nodeIndex.get(node): the index (1-based) set last for node, 0 for undefined
nodeIndexGet(unknownNodes, node) ==
    LET at == {i \in 1..Len(unknownNodes) : unknownNodes[i] = node}
    IN  IF at = {} THEN 0 ELSE CHOOSE i \in at : \A j \in at : j <= i

\* a faulty variant, for comparison: the entry is overwritten
SetAt(A, r, c, value) == [A EXCEPT ![r][c] = value]

\* A[r][c] += value, and the same under if (... !== undefined)
AddAt(A, r, c, value) == [A EXCEPT ![r][c] = Add(A[r][c], value)]
AddAtIf(A, defined, r, c, value) == IF defined THEN AddAt(A, r, c, value) ELSE A

\* addToNode(node, col, value): no row for the reference node
addToNode(A, unknownNodes, node, col, value) ==
    AddAtIf(A, nodeIndexGet(unknownNodes, node) # 0,
            nodeIndexGet(unknownNodes, node), col, value)

\* A[ia][ia] += g; A[ib][ib] += g; A[ia][ib] -= g; A[ib][ia] -= g
StampConductance(A, ia, ib, g) ==
    AddAtIf(AddAtIf(AddAtIf(AddAtIf(A, ia # 0, ia, ia, g),
                            ib # 0, ib, ib, g),
                    ia # 0 /\ ib # 0, ia, ib, Neg(g)),
            ia # 0 /\ ib # 0, ib, ia, Neg(g))

\* a faulty variant, for comparison: the resistance is stamped as conductance
StampResistorOhms(A, unknownNodes, e) ==
    StampConductance(A, nodeIndexGet(unknownNodes, e.a),
                     nodeIndexGet(unknownNodes, e.b), e.ohms)

\* the stamp of one resistor: g = 1 / R
StampResistor(A, unknownNodes, e) ==
    StampConductance(A, nodeIndexGet(unknownNodes, e.a),
                     nodeIndexGet(unknownNodes, e.b), Div(Num(1), e.ohms))

\* a faulty variant, for comparison: a resistor with ohms <= 0 is skipped
RECURSIVE StampResistorsSkipBad(_, _, _, _)
StampResistorsSkipBad(A, unknownNodes, elements, n) ==
    IF n = 0 THEN [failed |-> FALSE, A |-> A]
    ELSE LET prev == StampResistorsSkipBad(A, unknownNodes, elements, n - 1)
             e == elements[n]
         IN  IF e.kind # "R" \/ Leq(e.ohms, NumZero) THEN prev
             ELSE [failed |-> FALSE, A |-> StampResistor(prev.A, unknownNodes, e)]

\* the resistor loop over the first n elements: the stamped A, or the failure
\* of the first resistor with ohms <= 0, after which nothing more is stamped
RECURSIVE StampResistors(_, _, _, _)
StampResistors(A, unknownNodes, elements, n) ==
    IF n = 0 THEN [failed |-> FALSE, A |-> A]
    ELSE LET prev == StampResistors(A, unknownNodes, elements, n - 1)
             e == elements[n]
         IN  IF prev.failed \/ e.kind # "R" THEN prev
             ELSE IF Leq(e.ohms, NumZero) THEN [failed |-> TRUE, A |-> prev.A]
             ELSE [failed |-> FALSE, A |-> StampResistor(prev.A, unknownNodes, e)]

\* a faulty variant, for comparison: the entry of z is overwritten
SetZ(z, i, value) == IF i # 0 THEN [z EXCEPT ![i] = value] ELSE z

\* a faulty variant, for comparison: the value is pushed onto z
AppendToZ(z, i, value) == IF i # 0 THEN Append(z, value) ELSE z

\* z[i] += value under if (i !== undefined)
AddToZ(z, i, value) == IF i # 0 THEN [z EXCEPT ![i] = Add(z[i], value)] ELSE z

\* a faulty variant, for comparison: the current is injected at a and drawn at b
StampCurrentSourceReversed(z, unknownNodes, src) ==
    AddToZ(AddToZ(z, nodeIndexGet(unknownNodes, src.a), src.amps),
           nodeIndexGet(unknownNodes, src.b), Neg(src.amps))

\* the stamp of one current source into z: z[ia] += -amps; z[ib] += +amps
StampCurrentSource(z, unknownNodes, src) ==
    AddToZ(AddToZ(z, nodeIndexGet(unknownNodes, src.a), Neg(src.amps)),
           nodeIndexGet(unknownNodes, src.b), src.amps)

RECURSIVE StampCurrentSources(_, _, _, _)
StampCurrentSources(z, unknownNodes, elements, i) ==
    IF i > Len(elements) THEN z
    ELSE LET e == elements[i]
         IN  IF e.kind # "I" THEN StampCurrentSources(z, unknownNodes, elements, i + 1)
             ELSE StampCurrentSources(StampCurrentSource(z, unknownNodes, e),
                                      unknownNodes, elements, i + 1)

\* the coefficients at column col of the rows of a and b, then at row col of
\* the columns of a and b, for the literals one and minus one
StampIncidence(A, unknownNodes, vs, col, plus, minus, minusRow) ==
    AddAtIf(AddAtIf(addToNode(addToNode(A, unknownNodes, vs.a, col, plus),
                              unknownNodes, vs.b, col, minus),
                    nodeIndexGet(unknownNodes, vs.a) # 0,
                    col, nodeIndexGet(unknownNodes, vs.a), plus),
            nodeIndexGet(unknownNodes, vs.b) # 0,
            col, nodeIndexGet(unknownNodes, vs.b), minusRow)

\* a faulty variant, for comparison: the constraint row has +1 at both endpoints
StampVoltageSourceSameSign(A, unknownNodes, m, vs, idx) ==
    StampIncidence(A, unknownNodes, vs, m + idx, Num(1), Num(-1), Num(1))

\* a faulty variant, for comparison: only the constraint row is stamped
StampVoltageSourceRowOnly(A, unknownNodes, m, vs, idx) ==
    AddAtIf(AddAtIf(A, nodeIndexGet(unknownNodes, vs.a) # 0,
                    m + idx, nodeIndexGet(unknownNodes, vs.a), Num(1)),
            nodeIndexGet(unknownNodes, vs.b) # 0,
            m + idx, nodeIndexGet(unknownNodes, vs.b), Num(-1))

\* the stamp of voltage source vs, the idx-th of vSources (1-based), into A:
\* addToNode(vs.a, col, +1); addToNode(vs.b, col, -1);
\* A[row][ia] += +1; A[row][ib] += -1, with row = col = m + idx
StampVoltageSource(A, unknownNodes, m, vs, idx) ==
    StampIncidence(A, unknownNodes, vs, m + idx, Num(1), Num(-1), Num(-1))

\* vSources.forEach((vs, idx) => ...): A and z after sources idx..k
RECURSIVE StampVoltageSources(_, _, _, _, _)
StampVoltageSources(Az, unknownNodes, m, vSources, idx) ==
    IF idx > Len(vSources) THEN Az
    ELSE StampVoltageSources(
             [A |-> StampVoltageSource(Az.A, unknownNodes, m, vSources[idx], idx),
              z |-> [Az.z EXCEPT ![m + idx] = vSources[idx].volts]],
             unknownNodes, m, vSources, idx + 1)

\* the assembled system A x = z of m node rows and k source rows
Assembled(Az, m, k) == [failed |-> FALSE, m |-> m, k |-> k, A |-> Az.A, z |-> Az.z]

\* the system after the resistor loop R: none when a resistor failed, else
\* with the current sources and the voltage sources stamped
StampSources(R, z0, unknownNodes, vSources, elements) ==
    IF R.failed THEN [failed |-> TRUE]
    ELSE Assembled(StampVoltageSources(
                       [A |-> R.A, z |-> StampCurrentSources(z0, unknownNodes, elements, 1)],
                       unknownNodes, Len(unknownNodes), vSources, 1),
                   Len(unknownNodes), Len(vSources))

\* the assembled system of a circuit that passed the node
\* checks
Assemble(nodes, elements, refNode) ==
    LET unknownNodes == voltageUnknownNodesOf(nodes, refNode)
        vSources == vSourcesOf(elements)
        N == Len(unknownNodes) + Len(vSources)
        A0 == Matrix([i \in 1..N |-> [j \in 1..N |-> NumZero]])
        z0 == Array([i \in 1..N |-> NumZero])
    IN  StampSources(StampResistors(A0, unknownNodes, elements, Len(elements)),
                     z0, unknownNodes, vSources, elements)

\* obj[key] = value on a Record<string, number>
Put(f, key, value) == (key :> value) @@ f

\* a faulty variant, for comparison: a missing entry reads as one
GetOr1(f, key) == IF key \in DOMAIN f THEN f[key] ELSE Num(1)

\* obj[key] ?? 0
GetOr0(f, key) == IF key \in DOMAIN f THEN f[key] ELSE NumZero

\* const V = {}, const I = {}
EmptyRecord == <<>>

\* a faulty variant, for comparison: the voltages are the negated unknowns
RECURSIVE BuildVNegated(_, _, _, _)
BuildVNegated(V, unknownNodes, x, i) ==
    IF i > Len(unknownNodes) THEN V
    ELSE BuildVNegated(Put(V, unknownNodes[i], Neg(x[i])), unknownNodes, x, i + 1)

\* V[refNode] = 0; voltageUnknownNodes.forEach((n, i) => V[n] = x[i])
RECURSIVE BuildV(_, _, _, _)
BuildV(V, unknownNodes, x, i) ==
    IF i > Len(unknownNodes) THEN V
    ELSE BuildV(Put(V, unknownNodes[i], x[i]), unknownNodes, x, i + 1)

\* a faulty variant, for comparison: the current of source idx is read at x[idx]
RECURSIVE BuildIVNodeIndex(_, _, _, _, _)
BuildIVNodeIndex(I, vSources, x, m, idx) ==
    IF idx > Len(vSources) THEN I
    ELSE BuildIVNodeIndex(Put(I, vSources[idx].id, x[idx]), vSources, x, m, idx + 1)

\* vSources.forEach((vs, idx) => I[vs.id] = x[m + idx])
RECURSIVE BuildIV(_, _, _, _, _)
BuildIV(I, vSources, x, m, idx) ==
    IF idx > Len(vSources) THEN I
    ELSE BuildIV(Put(I, vSources[idx].id, x[m + idx]), vSources, x, m, idx + 1)

\* a faulty variant, for comparison: the magnitude of the current is reported
ResistorCurrentMagnitude(V, r) == Abs(Div(Sub(GetOr0(V, r.a), GetOr0(V, r.b)), r.ohms))

\* a faulty variant, for comparison: the current is reported in the direction b -> a
ResistorCurrentReversed(V, r) == Div(Sub(GetOr0(V, r.b), GetOr0(V, r.a)), r.ohms)

\* I[r.id] = ((V[r.a] ?? 0) - (V[r.b] ?? 0)) / r.ohms
ResistorCurrent(V, r) == Div(Sub(GetOr0(V, r.a), GetOr0(V, r.b)), r.ohms)

RECURSIVE BuildIR(_, _, _, _)
BuildIR(I, V, elements, i) ==
    IF i > Len(elements) THEN I
    ELSE LET e == elements[i]
         IN  IF e.kind # "R" THEN BuildIR(I, V, elements, i + 1)
             ELSE BuildIR(Put(I, e.id, ResistorCurrent(V, e)), V, elements, i + 1)

\* I[e.id] = e.amps
RECURSIVE BuildII(_, _, _)
BuildII(I, elements, i) ==
    IF i > Len(elements) THEN I
    ELSE LET e == elements[i]
         IN  IF e.kind # "I" THEN BuildII(I, elements, i + 1)
             ELSE BuildII(Put(I, e.id, e.amps), elements, i + 1)

\* a faulty variant, for comparison: only the empty node list is refused
TooFewNodesOffByOne(nodes) == Len(nodes) < 1

\* nodes.length < 2
TooFewNodes(nodes) == Len(nodes) < 2

\* return { refNode, V, I }: the currents of the three loops written in their
\* order to the one record I, a later write to an id replacing an earlier
\* one.  The assembled system and the solver's x are kept beside the Solution.
SolutionOf(c, refNode, S, x, V) ==
    [status |-> "ok", refNode |-> refNode, V |-> V,
     I |-> BuildII(EmptyRecord, c.elements, 1)
               @@ BuildIR(EmptyRecord, V, c.elements, 1)
               @@ BuildIV(EmptyRecord, vSourcesOf(c.elements), x, S.m, 1),
     A |-> S.A, z |-> S.z, x |-> x]

\* the outcome after the linear solve sol of the assembled system S
AfterSolve(c, refNode, S, sol) ==
    IF sol.status # "ok" THEN sol
    ELSE SolutionOf(c, refNode, S, sol.x,
                    BuildV(Put(EmptyRecord, refNode, NumZero),
                           voltageUnknownNodesOf(c.nodes, refNode), sol.x, 1))

\* the outcome after the assembly S
AfterAssemble(c, refNode, S) ==
    IF S.failed THEN Err("InvalidElement")
    ELSE AfterSolve(c, refNode, S, solveLinearSystem(S.A, S.z))

\* the whole call
\* a faulty variant, for comparison: the reference node is checked before
\* the number of nodes
solveCircuitMNARefFirst(c, o) ==
    IF refNodeOf(c.nodes, o) \notin Range(c.nodes) THEN Err("InvalidReferenceNode")
    ELSE IF TooFewNodes(c.nodes) THEN Err("InsufficientNodes")
    ELSE AfterAssemble(c, refNodeOf(c.nodes, o),
                       Assemble(c.nodes, c.elements, refNodeOf(c.nodes, o)))

solveCircuitMNA(c, o) ==
    IF TooFewNodes(c.nodes) THEN Err("InsufficientNodes")
    ELSE IF refNodeOf(c.nodes, o) \notin Range(c.nodes) THEN Err("InvalidReferenceNode")
    ELSE AfterAssemble(c, refNodeOf(c.nodes, o),
                       Assemble(c.nodes, c.elements, refNodeOf(c.nodes, o)))

\* (sol.V[a] ?? 0) - (sol.V[b] ?? 0)
voltageDiff(sol, a, b) == Sub(GetOr0(sol.V, a), GetOr0(sol.V, b))

----------------------------------------------------------------------------
(* equivalentResistanceAB *)

\* a faulty variant, for comparison: the current sources stay in the circuit
RECURSIVE DeactivateKeepCurrent(_, _)
DeactivateKeepCurrent(elements, i) ==
    IF i > Len(elements) THEN <<>>
    ELSE LET e == elements[i]
             rest == DeactivateKeepCurrent(elements, i + 1)
         IN  IF e.kind = "V" THEN <<[e EXCEPT !.volts = NumZero]>> \o rest
             ELSE <<e>> \o rest

\* a faulty variant, for comparison: vs.volts = 0; elements.push(vs)
ShortInPlace(vs) ==
    [pushed |-> [vs EXCEPT !.volts = NumZero], original |-> [vs EXCEPT !.volts = NumZero]]

\* elements.push({ ...vs, volts: 0 }): the object pushed is a new one with
\* volts 0, and vs, the caller's element, is as before
ShortCopy(vs) == [pushed |-> [vs EXCEPT !.volts = NumZero], original |-> vs]

\* the element list of the test circuit without the test source
RECURSIVE Deactivate(_, _)
Deactivate(elements, i) ==
    IF i > Len(elements) THEN <<>>
    ELSE LET e == elements[i]
             rest == Deactivate(elements, i + 1)
         IN  IF e.kind = "R" THEN <<e>> \o rest
             ELSE IF e.kind = "V" THEN <<ShortCopy(e).pushed>> \o rest
             ELSE rest

\* a faulty variant, for comparison: the current sources are removed from
\* the caller's list
ElementsAfterDropSources(elements) ==
    LET Kept(e) == e.kind # "I"
    IN  SelectSeq(elements, Kept)

\* the caller's circuit.elements after the loop: resistors are pushed as
\* they are and never written, current sources are skipped
ElementsAfter(elements) ==
    [i \in 1..Len(elements) |->
        IF elements[i].kind = "V" THEN ShortCopy(elements[i]).original ELSE elements[i]]

\* a faulty variant, for comparison: the test source flows from B to A
testCircuitOfReversed(c, A, B) ==
    [nodes |-> c.nodes,
     elements |-> Append(Deactivate(c.elements, 1), ISource("I_test", B, A, Num(1)))]

testCircuitOf(c, A, B) ==
    [nodes |-> c.nodes,
     elements |-> Append(Deactivate(c.elements, 1), ISource("I_test", A, B, Num(1)))]

\* a faulty variant, for comparison: the signed difference is returned
ResistanceOfSigned(sol, A, B) ==
    IF sol.status # "ok" THEN sol
    ELSE [status |-> "ok", value |-> voltageDiff(sol, A, B)]

\* return Math.abs(voltageDiff(sol, A, B)), or the failure of the solve
ResistanceOf(sol, A, B) ==
    IF sol.status # "ok" THEN sol
    ELSE [status |-> "ok", value |-> Abs(voltageDiff(sol, A, B))]

equivalentResistanceAB(c, A, B) ==
    ResistanceOf(solveCircuitMNA(testCircuitOf(c, A, B), [refNode |-> undefined]), A, B)

----------------------------------------------------------------------------
(* validateAnswers *)

\* A ValidationTargets is [voltages, currents, req]: the sequence of the
\* voltage targets [id, a, b], the sequence of the current targets
\* [elementId], and req, <<[A, B]>> or <<>> when it is absent.  The answers
\* are [voltages, currents, req]: two Record<string, number> and req, <<n>>
\* or <<>> for undefined.  A number that is missing makes the arithmetic of
\* check yield NaN, with which every comparison is false.

\* defaultTol = { abs: 1e-2, rel: 1e-2 }
defaultTol == [abs |-> Div(Num(1), Num(100)), rel |-> Div(Num(1), Num(100))]

\* the literal 1e-12
Tiny == Div(Num(1), Mul(Num(1000000), Num(1000000)))

\* Math.max(x, y)
Max(x, y) == IF Less(x, y) THEN y ELSE x

\* the CheckResult of numbers expected and got, given absErr
Checked(expected, got, absErr, relErr, tol) ==
    [ok |-> Leq(absErr, tol.abs) \/ Leq(relErr, tol.rel),
     expected |-> expected, got |-> got, absErr |-> absErr, relErr |-> relErr]
CheckedBoth(expected, got, absErr, relErr, tol) ==
    [ok |-> Leq(absErr, tol.abs) /\ Leq(relErr, tol.rel),
     expected |-> expected, got |-> got, absErr |-> absErr, relErr |-> relErr]

\* a faulty variant, for comparison: both tolerances must be met
checkBoth(expected, got, tol) ==
    CheckedBoth(expected, got, Abs(Sub(got, expected)),
                Div(Abs(Sub(got, expected)), Max(Tiny, Abs(expected))), tol)

\* absErr = |got - expected|; denom = max(1e-12, |expected|);
\* relErr = absErr / denom; ok = absErr <= tol.abs || relErr <= tol.rel
check(expected, got, tol) ==
    Checked(expected, got, Abs(Sub(got, expected)),
            Div(Abs(Sub(got, expected)), Max(Tiny, Abs(expected))), tol)

\* check with got or expected undefined: absErr and relErr are NaN
checkNaN == [ok |-> FALSE, absErr |-> "NaN", relErr |-> "NaN"]

\* check(expected, answers[key], tol)
checkAnswer(expected, given, key, tol) ==
    IF key \in DOMAIN given THEN check(expected, given[key], tol) ELSE checkNaN

\* for (const vq of targets.voltages)
\*   vr.voltages[vq.id] = check(voltageDiff(sol, vq.a, vq.b), answers.voltages[vq.id], tol)
RECURSIVE checkVoltages(_, _, _, _, _, _)
checkVoltages(vr, sol, qs, given, tol, i) ==
    IF i > Len(qs) THEN vr
    ELSE checkVoltages(Put(vr, qs[i].id,
                           checkAnswer(voltageDiff(sol, qs[i].a, qs[i].b), given,
                                       qs[i].id, tol)),
                       sol, qs, given, tol, i + 1)

\* for (const cq of targets.currents)
\*   vr.currents[cq.elementId] = check(sol.I[cq.elementId], answers.currents[cq.elementId], tol)
RECURSIVE checkCurrents(_, _, _, _, _, _)
checkCurrents(vr, sol, qs, given, tol, i) ==
    IF i > Len(qs) THEN vr
    ELSE checkCurrents(Put(vr, qs[i].elementId,
                           IF qs[i].elementId \in DOMAIN sol.I
                           THEN checkAnswer(sol.I[qs[i].elementId], given,
                                            qs[i].elementId, tol)
                           ELSE checkNaN),
                       sol, qs, given, tol, i + 1)

\* the result given the outcome req of equivalentResistanceAB, whose
\* failure is the failure of validateAnswers
Validated(sol, ts, given, tol, req) ==
    IF req.status # "ok" THEN req
    ELSE [status |-> "ok",
          voltages |-> checkVoltages(EmptyRecord, sol, ts.voltages, given.voltages, tol, 1),
          currents |-> checkCurrents(EmptyRecord, sol, ts.currents, given.currents, tol, 1),
          req |-> <<check(req.value, given.req[1], tol)>>]

validateAnswers(c, sol, ts, given, tol) ==
    IF ts.req # <<>> /\ given.req # <<>>
    THEN Validated(sol, ts, given, tol, equivalentResistanceAB(c, ts.req[1].A, ts.req[1].B))
    ELSE [status |-> "ok",
          voltages |-> checkVoltages(EmptyRecord, sol, ts.voltages, given.voltages, tol, 1),
          currents |-> checkCurrents(EmptyRecord, sol, ts.currents, given.currents, tol, 1),
          req |-> <<>>]

----------------------------------------------------------------------------

(* share/state: encodeState, decodeState *)

\* A string is the sequence of its characters, each the number of its code
\* point (characters of the Basic Multilingual Plane other than
\* surrogates).  A JavaScript value is a record tagged by t:
\*   [t |-> "undefined"], [t |-> "null"], [t |-> "string", s |-> characters],
\*   [t |-> "number", neg |-> sign, abs |-> magnitude, finite |-> TRUE]: an
\*       integer; neg with abs = 0 is the number -0; finite |-> FALSE with
\*       abs = 0 is Infinity or -Infinity,
\*   [t |-> "array", items |-> values],
\*   [t |-> "object", props |-> the properties [key, value] in the order of
\*       their creation].
JsUndefined == [t |-> "undefined"]
JsNull == [t |-> "null"]
JsString(s) == [t |-> "string", s |-> s]
JsNumber(neg, abs) == [t |-> "number", neg |-> neg, abs |-> abs, finite |-> TRUE]
JsInfinity(neg) == [t |-> "number", neg |-> neg, abs |-> 0, finite |-> FALSE]
JsArray(items) == [t |-> "array", items |-> items]
JsObject(props) == [t |-> "object", props |-> props]
Prop(key, value) == [key |-> key, value |-> value]

\* Number::toString of a nonnegative integer: its decimal digits
RECURSIVE Digits(_)
Digits(n) == IF n < 10 THEN <<48 + n>> ELSE Digits(n \div 10) \o <<48 + (n % 10)>>

\* JSON.stringify of a number: -0 is written as 0, a number that is not
\* finite as null
NumberText(v) ==
    IF ~v.finite THEN <<110, 117, 108, 108>>
    ELSE IF v.neg /\ v.abs # 0 THEN <<45>> \o Digits(v.abs)
    ELSE Digits(v.abs)

\* a hexadecimal digit, lower case
HexDigit(d) == IF d < 10 THEN 48 + d ELSE 87 + d

\* QuoteJSONString: one character of a string between the quotes
QuoteChar(c) ==
    IF c = 34 THEN <<92, 34>>
    ELSE IF c = 92 THEN <<92, 92>>
    ELSE IF c = 8 THEN <<92, 98>>
    ELSE IF c = 9 THEN <<92, 116>>
    ELSE IF c = 10 THEN <<92, 110>>
    ELSE IF c = 12 THEN <<92, 102>>
    ELSE IF c = 13 THEN <<92, 114>>
    ELSE IF c < 32 THEN <<92, 117, 48, 48, HexDigit(c \div 16), HexDigit(c % 16)>>
    ELSE <<c>>

\* the parts parts[lo], ..., parts[hi] one after the other
RECURSIVE Flatten(_, _, _)
Flatten(parts, lo, hi) ==
    IF lo > hi THEN <<>>
    ELSE IF lo = hi THEN parts[lo]
    ELSE Flatten(parts, lo, (lo + hi) \div 2) \o Flatten(parts, (lo + hi) \div 2 + 1, hi)

Quote(s) == <<34>> \o Flatten([i \in 1..Len(s) |-> QuoteChar(s[i])], 1, Len(s)) \o <<34>>

\* JSON.stringify(value): no white space; a property whose value is
\* undefined is left out; an item of an array that is undefined is null
RECURSIVE Stringify(_)
RECURSIVE StringifyItems(_, _)
RECURSIVE StringifyProps(_, _, _)
StringifyItems(items, i) ==
    IF i > Len(items) THEN <<>>
    ELSE (IF i > 1 THEN <<44>> ELSE <<>>)
             \o (IF items[i].t = "undefined" THEN <<110, 117, 108, 108>>
                 ELSE Stringify(items[i]))
             \o StringifyItems(items, i + 1)
StringifyProps(props, i, first) ==
    IF i > Len(props) THEN <<>>
    ELSE IF props[i].value.t = "undefined" THEN StringifyProps(props, i + 1, first)
    ELSE (IF first THEN <<>> ELSE <<44>>)
             \o Quote(props[i].key) \o <<58>> \o Stringify(props[i].value)
             \o StringifyProps(props, i + 1, FALSE)
Stringify(v) ==
    IF v.t = "string" THEN Quote(v.s)
    ELSE IF v.t = "number" THEN NumberText(v)
    ELSE IF v.t = "null" THEN <<110, 117, 108, 108>>
    ELSE IF v.t = "array" THEN <<91>> \o StringifyItems(v.items, 1) \o <<93>>
    ELSE <<123>> \o StringifyProps(v.props, 1, TRUE) \o <<125>>

\* TextEncoder.encode, Buffer.from(json, "utf8"): the UTF-8 bytes
Utf8Char(c) ==
    IF c < 128 THEN <<c>>
    ELSE IF c < 2048 THEN <<192 + (c \div 64), 128 + (c % 64)>>
    ELSE <<224 + (c \div 4096), 128 + ((c \div 64) % 64), 128 + (c % 64)>>
Utf8Encode(s) == Flatten([i \in 1..Len(s) |-> Utf8Char(s[i])], 1, Len(s))

\* TextDecoder.decode, toString("utf8"): bytes[i] and the bytes after it
\* are a well-formed character of two or of three bytes
TwoBytes(bytes, i) ==
    /\ i >= 1 /\ i + 1 <= Len(bytes)
    /\ bytes[i] \in 194..223 /\ bytes[i + 1] \in 128..191
ThreeBytes(bytes, i) ==
    /\ i >= 1 /\ i + 2 <= Len(bytes)
    /\ bytes[i] \in 224..239 /\ bytes[i + 1] \in 128..191 /\ bytes[i + 2] \in 128..191
    /\ (bytes[i] - 224) * 4096 + (bytes[i + 1] - 128) * 64 >= 2048
    /\ (bytes[i] - 224) * 4096 + (bytes[i + 1] - 128) * 64 \notin 55296..57343

\* what the byte at i adds to the decoded text: the character it starts,
\* nothing if it continues a character, U+FFFD if it is part of no
\* well-formed character
Utf8At(bytes, i) ==
    IF bytes[i] < 128 THEN <<bytes[i]>>
    ELSE IF TwoBytes(bytes, i)
         THEN <<(bytes[i] - 192) * 64 + (bytes[i + 1] - 128)>>
    ELSE IF ThreeBytes(bytes, i)
         THEN <<(bytes[i] - 224) * 4096 + (bytes[i + 1] - 128) * 64 + (bytes[i + 2] - 128)>>
    ELSE IF TwoBytes(bytes, i - 1) \/ ThreeBytes(bytes, i - 1) \/ ThreeBytes(bytes, i - 2)
         THEN <<>>
    ELSE <<65533>>
Utf8Decode(bytes) == Flatten([i \in 1..Len(bytes) |-> Utf8At(bytes, i)], 1, Len(bytes))

\* the base64 alphabet: A-Z a-z 0-9 + /
Base64Char(d) ==
    IF d < 26 THEN 65 + d
    ELSE IF d < 52 THEN 97 + (d - 26)
    ELSE IF d < 62 THEN 48 + (d - 52)
    ELSE IF d = 62 THEN 43 ELSE 47
Base64Digit(c) ==
    IF c \in 65..90 THEN c - 65
    ELSE IF c \in 97..122 THEN c - 97 + 26
    ELSE IF c \in 48..57 THEN c - 48 + 52
    ELSE IF c = 43 THEN 62 ELSE 63

\* btoa, toString("base64"): three bytes give four characters, a last
\* group of one or two bytes gives two or three characters and = padding
Base64Group(bytes, i) ==
    IF i = Len(bytes)
    THEN <<Base64Char(bytes[i] \div 4), Base64Char((bytes[i] % 4) * 16), 61, 61>>
    ELSE IF i + 1 = Len(bytes)
         THEN <<Base64Char(bytes[i] \div 4),
                Base64Char((bytes[i] % 4) * 16 + (bytes[i + 1] \div 16)),
                Base64Char((bytes[i + 1] % 16) * 4), 61>>
    ELSE <<Base64Char(bytes[i] \div 4),
           Base64Char((bytes[i] % 4) * 16 + (bytes[i + 1] \div 16)),
           Base64Char((bytes[i + 1] % 16) * 4 + (bytes[i + 2] \div 64)),
           Base64Char(bytes[i + 2] % 64)>>
Btoa(bytes) ==
    Flatten([g \in 1..((Len(bytes) + 2) \div 3) |-> Base64Group(bytes, 3 * g - 2)],
            1, (Len(bytes) + 2) \div 3)

\* atob, Buffer.from(b64, "base64") of a padded text of whole groups
BytesOfGroup(b64, i, d1, d2, d3, d4) ==
    IF b64[i + 2] = 61 THEN <<d1 * 4 + (d2 \div 16)>>
    ELSE IF b64[i + 3] = 61
         THEN <<d1 * 4 + (d2 \div 16), (d2 % 16) * 16 + (d3 \div 4)>>
    ELSE <<d1 * 4 + (d2 \div 16), (d2 % 16) * 16 + (d3 \div 4), (d3 % 4) * 64 + d4>>
Atob(b64) ==
    Flatten([g \in 1..(Len(b64) \div 4) |->
                 BytesOfGroup(b64, 4 * g - 3,
                              Base64Digit(b64[4 * g - 3]), Base64Digit(b64[4 * g - 2]),
                              Base64Digit(b64[4 * g - 1]), Base64Digit(b64[4 * g]))],
            1, Len(b64) \div 4)

\* s.replace(/x/g, y) for characters x and y
ReplaceAll(s, x, y) == [i \in 1..Len(s) |-> IF s[i] = x THEN y ELSE s[i]]

\* s.replace(/=+$/g, "")
RECURSIVE StripPadding(_)
StripPadding(s) ==
    IF s # <<>> /\ s[Len(s)] = 61 THEN StripPadding(SubSeq(s, 1, Len(s) - 1)) ELSE s

\* b64.replace(/\+/g, "-").replace(/\//g, "_").replace(/=+$/g, "")
base64UrlEncode(bytes) ==
    StripPadding(ReplaceAll(ReplaceAll(Btoa(bytes), 43, 45), 47, 95))

\* pad = s.length % 4 === 0 ? "" : "=".repeat(4 - (s.length % 4))
Padding(s) == [i \in 1..((4 - (Len(s) % 4)) % 4) |-> 61]

\* atob(s.replace(/-/g, "+").replace(/_/g, "/") + pad)
base64UrlDecode(s) ==
    Atob(ReplaceAll(ReplaceAll(s, 45, 43), 95, 47) \o Padding(s))

\* encodeState(state) = base64UrlEncode(enc.encode(JSON.stringify(state)))
encodeState(state) == base64UrlEncode(Utf8Encode(Stringify(state)))

\* JSON.parse: the outcome of reading one part of the text
Failure(why) == [ok |-> FALSE, why |-> why]
SyntaxError == Failure("SyntaxError")
Parsed(v, next) == [ok |-> TRUE, v |-> v, next |-> next]

\* white space between the tokens of a JSON text
RECURSIVE SkipWs(_, _)
SkipWs(t, i) == IF i <= Len(t) /\ t[i] \in {32, 9, 10, 13} THEN SkipWs(t, i + 1) ELSE i

StartsWith(t, i, word) ==
    i + Len(word) - 1 <= Len(t) /\ SubSeq(t, i, i + Len(word) - 1) = word

\* the value of a hexadecimal digit, 16 for any other character
HexValue(c) ==
    IF c \in 48..57 THEN c - 48
    ELSE IF c \in 97..102 THEN c - 87
    ELSE IF c \in 65..70 THEN c - 55
    ELSE 16

\* the character named by the escape that starts at t[i] = \
Escaped(t, i) ==
    IF i + 1 > Len(t) THEN SyntaxError
    ELSE IF t[i + 1] \in {34, 92, 47} THEN Parsed(t[i + 1], i + 2)
    ELSE IF t[i + 1] = 98 THEN Parsed(8, i + 2)
    ELSE IF t[i + 1] = 116 THEN Parsed(9, i + 2)
    ELSE IF t[i + 1] = 110 THEN Parsed(10, i + 2)
    ELSE IF t[i + 1] = 102 THEN Parsed(12, i + 2)
    ELSE IF t[i + 1] = 114 THEN Parsed(13, i + 2)
    ELSE IF t[i + 1] = 117 /\ i + 5 <= Len(t)
            /\ \A d \in 2..5 : HexValue(t[i + d]) < 16
         THEN Parsed(HexValue(t[i + 2]) * 4096 + HexValue(t[i + 3]) * 256
                         + HexValue(t[i + 4]) * 16 + HexValue(t[i + 5]), i + 6)
    ELSE SyntaxError

\* the characters of a string up to its closing quote
RECURSIVE ParseChars(_, _, _)
AfterEscape(t, acc, e) ==
    IF e.ok THEN ParseChars(t, e.next, Append(acc, e.v)) ELSE e
ParseChars(t, i, acc) ==
    IF i > Len(t) THEN SyntaxError
    ELSE IF t[i] = 34 THEN Parsed(acc, i + 1)
    ELSE IF t[i] < 32 THEN SyntaxError
    ELSE IF t[i] = 92 THEN AfterEscape(t, acc, Escaped(t, i))
    ELSE ParseChars(t, i + 1, Append(acc, t[i]))

\* the finite numbers of the model are the integers up to MaxInteger
MaxInteger == 999999999

\* a number: -0 is read as the number -0; digits with an exponent that
\* takes the value to 10^309 or beyond are read as Infinity.  A number with
\* a fraction, or with an exponent that makes it no integer below 10^9, is
\* none of the numbers above: the outcome is then "unmodelled".  The largest
\* double is below 10^309.
RECURSIVE ParseDigits(_, _, _)
ParseDigits(t, i, acc) ==
    IF i <= Len(t) /\ t[i] \in 48..57
    THEN ParseDigits(t, i + 1, IF acc > MaxInteger \div 10 THEN MaxInteger + 1
                               ELSE acc * 10 + (t[i] - 48))
    ELSE Parsed(acc, i)
RECURSIVE TimesTen(_, _)
TimesTen(n, x) ==
    IF x = 0 THEN n
    ELSE IF n > MaxInteger \div 10 THEN MaxInteger + 1
    ELSE TimesTen(n * 10, x - 1)
Scaled(neg, d, x) ==
    IF d.v = 0 THEN Parsed(JsNumber(neg, 0), x.next)
    ELSE IF d.v <= MaxInteger /\ Len(Digits(d.v)) + x.v > 309
         THEN Parsed(JsInfinity(neg), x.next)
    ELSE IF TimesTen(d.v, x.v) <= MaxInteger
         THEN Parsed(JsNumber(neg, TimesTen(d.v, x.v)), x.next)
    ELSE Failure("unmodelled")
RECURSIVE Exponent(_, _, _, _, _)
Exponent(t, neg, d, j, signed) ==
    IF j <= Len(t) /\ t[j] = 43 /\ ~signed THEN Exponent(t, neg, d, j + 1, TRUE)
    ELSE IF j <= Len(t) /\ t[j] = 45 /\ ~signed THEN Failure("unmodelled")
    ELSE IF j <= Len(t) /\ t[j] \in 48..57 THEN Scaled(neg, d, ParseDigits(t, j, 0))
    ELSE SyntaxError
NumberOf(t, neg, d) ==
    IF d.v > MaxInteger THEN Failure("unmodelled")
    ELSE IF d.next <= Len(t) /\ t[d.next] = 46 THEN Failure("unmodelled")
    ELSE IF d.next <= Len(t) /\ t[d.next] \in {101, 69}
         THEN Exponent(t, neg, d, d.next + 1, FALSE)
    ELSE Parsed(JsNumber(neg, d.v), d.next)
ParseInteger(t, neg, j) ==
    IF j > Len(t) THEN SyntaxError
    ELSE IF t[j] = 48 THEN NumberOf(t, neg, Parsed(0, j + 1))
    ELSE IF t[j] \in 49..57 THEN NumberOf(t, neg, ParseDigits(t, j, 0))
    ELSE SyntaxError
ParseNumber(t, i) == IF t[i] = 45 THEN ParseInteger(t, TRUE, i + 1) ELSE ParseInteger(t, FALSE, i)

\* obj[key] = value: a key read again keeps its place and takes the new value
SetProp(props, key, value) ==
    IF \E p \in 1..Len(props) : props[p].key = key
    THEN [p \in 1..Len(props) |->
              IF props[p].key = key THEN Prop(key, value) ELSE props[p]]
    ELSE Append(props, Prop(key, value))

RECURSIVE ParseValue(_, _)
RECURSIVE ParseItems(_, _, _)
RECURSIVE ParseProps(_, _, _)
AsString(r) == IF r.ok THEN Parsed(JsString(r.v), r.next) ELSE r
ItemsAfter(t, items, j) ==
    IF j > Len(t) THEN SyntaxError
    ELSE IF t[j] = 44 THEN ParseItems(t, SkipWs(t, j + 1), items)
    ELSE IF t[j] = 93 THEN Parsed(JsArray(items), j + 1)
    ELSE SyntaxError
ItemRead(t, acc, r) ==
    IF r.ok THEN ItemsAfter(t, Append(acc, r.v), SkipWs(t, r.next)) ELSE r
ParseItems(t, i, acc) == ItemRead(t, acc, ParseValue(t, i))
PropsAfter(t, props, j) ==
    IF j > Len(t) THEN SyntaxError
    ELSE IF t[j] = 44 THEN ParseProps(t, SkipWs(t, j + 1), props)
    ELSE IF t[j] = 125 THEN Parsed(JsObject(props), j + 1)
    ELSE SyntaxError
PropRead(t, acc, key, r) ==
    IF r.ok THEN PropsAfter(t, SetProp(acc, key, r.v), SkipWs(t, r.next)) ELSE r
ColonRead(t, acc, key, j) ==
    IF j <= Len(t) /\ t[j] = 58
    THEN PropRead(t, acc, key, ParseValue(t, SkipWs(t, j + 1)))
    ELSE SyntaxError
KeyRead(t, acc, k) ==
    IF k.ok THEN ColonRead(t, acc, k.v, SkipWs(t, k.next)) ELSE k
ParseProps(t, i, acc) ==
    IF i <= Len(t) /\ t[i] = 34 THEN KeyRead(t, acc, ParseChars(t, i + 1, <<>>))
    ELSE SyntaxError
ArrayFrom(t, j) ==
    IF j <= Len(t) /\ t[j] = 93 THEN Parsed(JsArray(<<>>), j + 1) ELSE ParseItems(t, j, <<>>)
ObjectFrom(t, j) ==
    IF j <= Len(t) /\ t[j] = 125 THEN Parsed(JsObject(<<>>), j + 1) ELSE ParseProps(t, j, <<>>)
ParseValue(t, i) ==
    IF i > Len(t) THEN SyntaxError
    ELSE IF t[i] = 34 THEN AsString(ParseChars(t, i + 1, <<>>))
    ELSE IF t[i] = 91 THEN ArrayFrom(t, SkipWs(t, i + 1))
    ELSE IF t[i] = 123 THEN ObjectFrom(t, SkipWs(t, i + 1))
    ELSE IF StartsWith(t, i, <<110, 117, 108, 108>>) THEN Parsed(JsNull, i + 4)
    ELSE ParseNumber(t, i)

\* JSON.parse(text): one value and nothing but white space after it
WholeText(t, r) ==
    IF ~r.ok THEN Err(r.why)
    ELSE IF SkipWs(t, r.next) > Len(t) THEN [status |-> "ok", value |-> r.v]
    ELSE Err("SyntaxError")
JsonParse(t) == WholeText(t, ParseValue(t, SkipWs(t, 1)))

\* decodeState(encoded) = JSON.parse(dec.decode(base64UrlDecode(encoded)))
decodeState(encoded) == JsonParse(Utf8Decode(base64UrlDecode(encoded)))

(* Calls of solveLinearSystem on bounded inputs *)

MaxEntry == 2

Entries == {Rat(i) : i \in (-MaxEntry)..MaxEntry}
Entries3 == {Rat(-1), Rat(0), Rat(2)}
Vectors(n, S) == [1..n -> S]

NoCircuit == [nodes |-> <<>>, elements |-> <<>>]
NoTargets == [voltages |-> <<>>, currents |-> <<>>, req |-> <<>>]
NoAnswers == [voltages |-> <<>>, currents |-> <<>>, req |-> <<>>]

\* no call was made yet, and nothing is given to validate or to encode
Idle ==
    /\ calls = <<>>
    /\ targets = NoTargets
    /\ answers = NoAnswers
    /\ appState = undefined

\* the record of a finished call; held: the arguments are the objects the
\* caller holds in linA, linB and circuit
Call(fn, held, args, outcome) ==
    [fn |-> fn, held |-> held, args |-> args, outcome |-> outcome]

\* every square system of dimension 0, 1 and 2 over Entries
SmallSystems ==
    \E n \in 0..2 :
        /\ linA \in Vectors(n, Vectors(n, Entries))
        /\ linB \in Vectors(n, Entries)

\* systems of dimension 3, where elimination has two steps
Systems3 ==
    /\ linA \in Vectors(3, Vectors(3, Entries3))
    /\ linB = <<Rat(1), Rat(0), Rat(-1)>>

InitLinear ==
    /\ format = "exact"
    /\ pc = "ready"
    /\ (SmallSystems \/ Systems3)
    /\ circuit = NoCircuit
    /\ opts = [refNode |-> undefined]
    /\ termA = undefined
    /\ termB = undefined
    /\ Idle
    /\ result = Err("none")

CallSolveLinearSystem ==
    /\ pc = "ready"
    /\ pc' = "solveLinearSystem"
    /\ result' = solveLinearSystem(linA, linB)
    /\ calls' = Append(calls, Call("solveLinearSystem", TRUE, [A |-> linA, b |-> linB], result'))
    /\ UNCHANGED <<format, linA, linB, circuit, opts, termA, termB, targets, answers,
                   appState>>

NextLinear == CallSolveLinearSystem

SpecLinear == InitLinear /\ [][NextLinear]_vars

\* arguments of any shape: up to two rows of up to three entries each and a
\* vector b of up to three entries, over 0 and 1
ShapeEntries == {Rat(0), Rat(1)}
ShapeRows == UNION {Vectors(len, ShapeEntries) : len \in 0..3}
AnyShapeSystems ==
    \E n \in 0..2 :
        /\ linA \in Vectors(n, ShapeRows)
        /\ linB \in ShapeRows

InitShapes ==
    /\ format = "exact"
    /\ pc = "ready"
    /\ (AnyShapeSystems \/ Systems3)
    /\ circuit = NoCircuit
    /\ opts = [refNode |-> undefined]
    /\ termA = undefined
    /\ termB = undefined
    /\ Idle
    /\ result = Err("none")

SpecShapes == InitShapes /\ [][NextLinear]_vars

----------------------------------------------------------------------------
(* Calls of solveCircuitMNA and equivalentResistanceAB on bounded circuits *)

MaxOhms == 2
MaxVolts == 2
MaxAmps == 1

ElementIds == <<"e1", "e2", "e3", "e4", "e5", "e6">>

\* an element <<kind, a, b, value>> given the id of position i
MkElement(t, i) ==
    IF t[1] = "R" THEN Resistor(ElementIds[i], t[2], t[3], Num(t[4]))
    ELSE IF t[1] = "V" THEN VSource(ElementIds[i], t[2], t[3], Num(t[4]))
    ELSE ISource(ElementIds[i], t[2], t[3], Num(t[4]))

MkElements(ts) == [i \in 1..Len(ts) |-> MkElement(ts[i], i)]

MkCircuit(nodes, ts) == [nodes |-> nodes, elements |-> MkElements(ts)]

\* the arguments of the calls
Given(c, r, A, B) ==
    /\ circuit = c
    /\ opts = [refNode |-> r]
    /\ termA = A
    /\ termB = B

Pairs(S) == {p \in S \X S : p[1] # p[2]}

GoodOhms == 1..MaxOhms
BadOhms == {0, -1}
Volts == 1..MaxVolts
Amps == 1..MaxAmps

Rs(S, ohms) == {<<"R", p[1], p[2], v>> : p \in Pairs(S), v \in ohms}
Vs(S) == {<<"V", p[1], p[2], v>> : p \in Pairs(S), v \in Volts}
Is(S) == {<<"I", p[1], p[2], v>> : p \in Pairs(S), v \in Amps}
Catalogue(S) == Rs(S, GoodOhms \cup BadOhms) \cup Vs(S) \cup Is(S)

\* two nodes, up to three elements of any kind
TwoNodeInputs ==
    \E k \in 0..3 : \E ts \in [1..k -> Catalogue({"0", "n1"})] :
        Given(MkCircuit(<<"0", "n1">>, ts), undefined, "n1", "0")

\* three nodes without a preferred name, up to two elements
ThreeNodeInputs ==
    \E k \in 0..2 : \E ts \in [1..k -> Catalogue({"n1", "n2", "n3"})] :
        \E t \in {<<"n1", "n2">>, <<"n3", "n2">>} :
            Given(MkCircuit(<<"n1", "n2", "n3">>, ts), undefined, t[1], t[2])

Perms3 == {<<1, 2, 3>>, <<1, 3, 2>>, <<2, 1, 3>>, <<2, 3, 1>>, <<3, 1, 2>>, <<3, 2, 1>>}
Permute(ts, p) == [i \in 1..3 |-> ts[p[i]]]

\* one resistor, one voltage source and one current source, in any order
MixedInputs ==
    \E r \in Rs({"0", "n1", "n2"}, GoodOhms), v \in Vs({"0", "n1", "n2"}),
       i \in Is({"0", "n1", "n2"}), p \in Perms3, o \in {undefined, "n2"} :
        Given(MkCircuit(<<"0", "n1", "n2">>, Permute(<<r, v, i>>, p)), o, "n1", "n2")

\* the series divider of the tests: V1 n1 -> 0, R1 n1 - n2, R2 n2 - 0
DividerVolts == {1, 2, 10}
DividerOhms == {1, 2, 3, 1000}
Divider(vs, r1, r2) ==
    <<<<"V", "n1", "0", vs>>, <<"R", "n1", "n2", r1>>, <<"R", "n2", "0", r2>>>>
DividerInputs ==
    \E ns \in {<<"0", "n1", "n2">>, <<"n2", "n1", "0">>}, vs \in DividerVolts,
       r1 \in DividerOhms, r2 \in DividerOhms, p \in Perms3 :
        Given(MkCircuit(ns, Permute(Divider(vs, r1, r2), p)), undefined, "n1", "0")

\* node lists with and without preferred names, chained by unit resistors
RefNames == {"0", "GND", "ref", "n1", "n2"}
Unique(q) == \A i, j \in 1..Len(q) : q[i] = q[j] => i = j
Chain(nodes) ==
    IF Len(nodes) < 2 THEN <<>>
    ELSE [i \in 1..(Len(nodes) - 1) |-> <<"R", nodes[i], nodes[i + 1], 1>>]
RefInputs ==
    \E k \in 0..3 : \E ns \in [1..k -> RefNames] : \E o \in {undefined, "0", "n1", "zz"} :
        /\ Unique(ns)
        /\ Given(MkCircuit(ns, Chain(ns)), o, "n1", "n2")

\* fewer than two nodes, with elements and with reference node overrides
FewNodeInputs ==
    \E ns \in {<<>>, <<"n1">>, <<"0">>}, o \in {undefined, "n1", "zz"} :
        \E k \in 0..2 : \E ts \in [1..k -> Catalogue({"0", "n1"})] :
            Given(MkCircuit(ns, ts), o, "n1", "0")

\* two resistors between the two nodes of a circuit, in both directions,
\* under node names and orders that make either node the reference node
ParallelOhms == {1, 2, 3, 100, 300}
ParallelNodes == {<<"A", "B">>, <<"B", "A">>, <<"0", "n1">>, <<"n1", "0">>, <<"n1", "GND">>}
ParallelInputs ==
    \E ns \in ParallelNodes, r1 \in ParallelOhms, r2 \in ParallelOhms,
       d1 \in {1, 2}, d2 \in {1, 2}, t \in {1, 2} :
        Given(MkCircuit(ns, <<<<"R", ns[d1], ns[3 - d1], r1>>,
                              <<"R", ns[d2], ns[3 - d2], r2>>>>),
              undefined, ns[t], ns[3 - t])

\* the circuits of the repository's tests
TestDivider ==
    MkCircuit(<<"0", "n1", "n2">>, Divider(10, 1000, 1000))
TestOpposing ==
    MkCircuit(<<"0", "a", "b">>,
              <<<<"V", "a", "0", 5>>, <<"V", "0", "b", 2>>,
                <<"R", "a", "b", 1000>>, <<"R", "b", "0", 1000>>>>)
TestParallel ==
    MkCircuit(<<"A", "B">>, <<<<"R", "A", "B", 100>>, <<"R", "A", "B", 300>>>>)
TestInputs ==
    \/ Given(TestDivider, undefined, "n1", "0")
    \/ Given(TestOpposing, undefined, "a", "b")
    \/ Given(TestParallel, undefined, "A", "B")

Init ==
    /\ format = "exact"
    /\ pc = "ready"
    /\ linA = <<>>
    /\ linB = <<>>
    /\ \/ TwoNodeInputs
       \/ ThreeNodeInputs
       \/ MixedInputs
       \/ DividerInputs
       \/ RefInputs
       \/ FewNodeInputs
       \/ ParallelInputs
       \/ TestInputs
    /\ Idle
    /\ result = Err("none")

CallSolveCircuitMNA ==
    /\ pc = "ready"
    /\ pc' = "solveCircuitMNA"
    /\ result' = solveCircuitMNA(circuit, opts)
    /\ calls' = Append(calls, Call("solveCircuitMNA", TRUE,
                                   [circuit |-> circuit, opts |-> opts], result'))
    /\ UNCHANGED <<format, linA, linB, circuit, opts, termA, termB, targets, answers,
                   appState>>

CallEquivalentResistanceAB ==
    /\ pc = "ready"
    /\ pc' = "equivalentResistanceAB"
    /\ result' = equivalentResistanceAB(circuit, termA, termB)
    /\ circuit' = [circuit EXCEPT !.elements = ElementsAfter(circuit.elements)]
    /\ calls' = Append(calls, Call("equivalentResistanceAB", TRUE,
                                   [circuit |-> circuit, A |-> termA, B |-> termB],
                                   result'))
    /\ UNCHANGED <<format, linA, linB, opts, termA, termB, targets, answers, appState>>

Next == CallSolveCircuitMNA \/ CallEquivalentResistanceAB

Spec == Init /\ [][Next]_vars

----------------------------------------------------------------------------
(* The same calls in double arithmetic: circuits on the nodes 0, a, b, c   *)
(* with a triangle of resistors a-b, b-c, c-a, at most one resistor tying   *)
(* the triangle to node 0, at most one current source, and the terminals    *)
(* 0 and a.  Without the tie the triangle has no path to the reference 0.   *)

Ties == {<<>>} \cup {<<<<"R", "0", "a", v>>>> : v \in GoodOhms}
Sources == {<<>>, <<<<"I", "a", "b", 1>>>>, <<<<"I", "0", "a", 1>>>>}

TriangleInputs ==
    \E r1 \in GoodOhms, r2 \in GoodOhms, r3 \in GoodOhms :
        \E tie \in Ties, src \in Sources :
            Given(MkCircuit(<<"0", "a", "b", "c">>,
                            <<<<"R", "a", "b", r1>>, <<"R", "b", "c", r2>>,
                              <<"R", "c", "a", r3>>>> \o tie \o src),
                  undefined, "0", "a")

\* a node that no element references, with and without a resistor elsewhere
LoneNodeInputs ==
    \E ns \in {<<"0", "a">>, <<"0", "a", "b">>} :
        \E k \in 0..1 : \E ts \in [1..k -> Rs({"0", "a"}, GoodOhms)] :
            Given(MkCircuit(ns \o <<"c">>, ts), undefined, "0", "c")

InitDouble ==
    /\ format = "double"
    /\ pc = "ready"
    /\ linA = <<>>
    /\ linB = <<>>
    /\ \/ TriangleInputs
       \/ LoneNodeInputs
       \/ TestInputs
    /\ Idle
    /\ result = Err("none")

SpecDouble == InitDouble /\ [][Next]_vars

----------------------------------------------------------------------------
(* Calls on the circuits of two nodes, of three nodes with up to two        *)
(* elements, and of two parallel resistors                                  *)

InitReq ==
    /\ format = "exact"
    /\ pc = "ready"
    /\ linA = <<>>
    /\ linB = <<>>
    /\ \/ TwoNodeInputs
       \/ ThreeNodeInputs
       \/ ParallelInputs
       \/ TestInputs
    /\ Idle
    /\ result = Err("none")

SpecReq == InitReq /\ [][Next]_vars

----------------------------------------------------------------------------
(* Calls on circuits of the nodes n1, 0, n2 whose elements share nodes: up  *)
(* to two elements of any value, or three elements of value 1, with the     *)
(* reference node 0 (automatic) or n2 (explicit)                            *)

StampNodes == <<"n1", "0", "n2">>
StampPairs == {<<"n1", "0">>, <<"0", "n2">>, <<"n2", "n1">>}
StampCatalogue(ohms, volts, amps) ==
    {<<"R", p[1], p[2], v>> : p \in StampPairs, v \in ohms}
        \cup {<<"V", p[1], p[2], v>> : p \in StampPairs, v \in volts}
        \cup {<<"I", p[1], p[2], v>> : p \in StampPairs, v \in amps}
StampInputs ==
    \E o \in {undefined, "n2"} :
        \/ \E k \in 0..2 : \E ts \in [1..k -> StampCatalogue(GoodOhms, Volts, Amps)] :
               Given(MkCircuit(StampNodes, ts), o, "n1", "n2")
        \/ \E ts \in [1..3 -> StampCatalogue({1}, {1}, {1})] :
               Given(MkCircuit(StampNodes, ts), o, "n1", "n2")

InitStamp ==
    /\ format = "exact"
    /\ pc = "ready"
    /\ linA = <<>>
    /\ linB = <<>>
    /\ StampInputs
    /\ Idle
    /\ result = Err("none")

SpecStamp == InitStamp /\ [][Next]_vars

----------------------------------------------------------------------------
(* Calls on circuits that break the invariants of the types: fewer than    *)
(* two nodes, a reference override that is no node, resistors of           *)
(* non-positive ohms, and endpoints or terminals ("x") that are no node    *)

CheckNodes == {<<"n1">>, <<"0", "n1">>, <<"n1", "n2", "0">>}
CheckPairs ==
    {<<"n1", "0">>, <<"0", "n1">>, <<"n1", "n2">>, <<"n2", "0">>,
     <<"n1", "x">>, <<"x", "0">>, <<"x", "n2">>}
CheckCatalogue ==
    {<<"R", p[1], p[2], v>> : p \in CheckPairs, v \in {1, 2, 0, -1}}
        \cup {<<"V", p[1], p[2], 1>> : p \in CheckPairs}
        \cup {<<"I", p[1], p[2], 1>> : p \in CheckPairs}
CheckInputs ==
    \E ns \in CheckNodes, o \in {undefined, "n1", "zz"},
       t \in {<<"n1", "0">>, <<"x", "n1">>} :
        \E k \in 0..2 : \E ts \in [1..k -> CheckCatalogue] :
            Given(MkCircuit(ns, ts), o, t[1], t[2])

InitChecks ==
    /\ format = "exact"
    /\ pc = "ready"
    /\ linA = <<>>
    /\ linB = <<>>
    /\ CheckInputs
    /\ Idle
    /\ result = Err("none")

SpecChecks == InitChecks /\ [][Next]_vars

----------------------------------------------------------------------------

(* Sequences of calls: the caller holds one circuit (or one linear system)  *)
(* and calls the entry points on it again and again, with calls of          *)
(* solveCircuitMNA on other circuits in between                             *)

MaxCalls == 3

SeqCircuits ==
    {TestDivider, TestOpposing, TestParallel,
     MkCircuit(<<"0", "n1">>, <<<<"V", "n1", "0", 2>>, <<"R", "n1", "0", 1>>>>),
     MkCircuit(<<"n1", "n2">>, <<<<"V", "n1", "n2", 1>>, <<"V", "n2", "n1", 2>>>>),
     MkCircuit(<<"0", "n1", "n2">>,
               <<<<"I", "0", "n1", 1>>, <<"R", "n1", "0", 2>>, <<"V", "n2", "n1", 1>>>>),
     MkCircuit(<<"0", "n1">>, <<<<"V", "n1", "0", 1>>, <<"R", "n1", "0", 0>>>>),
     MkCircuit(<<"n1">>, <<<<"V", "n1", "0", 1>>>>)}
OtherCircuits ==
    {TestParallel,
     MkCircuit(<<"0", "n1">>, <<<<"V", "0", "n1", 1>>, <<"R", "n1", "0", 1>>>>),
     MkCircuit(<<"0", "n1">>, <<<<"R", "n1", "0", -1>>>>),
     NoCircuit}
SeqSystems ==
    {<<<<<<Rat(0), Rat(1)>>, <<Rat(2), Rat(1)>>>>, <<Rat(1), Rat(-1)>>>>,
     <<<<<<Rat(1), Rat(1)>>, <<Rat(1), Rat(1)>>>>, <<Rat(1), Rat(2)>>>>,
     <<<<<<Rat(1)>>, <<Rat(2)>>>>, <<Rat(1), Rat(2)>>>>}

InitSeq ==
    /\ format = "exact"
    /\ pc = "ready"
    /\ \/ /\ linA = <<>>
          /\ linB = <<>>
          /\ \E c \in SeqCircuits, o \in {undefined, "n1"} :
                 Given(c, o, c.nodes[1], c.elements[1].a)
       \/ /\ \E sys \in SeqSystems : linA = sys[1] /\ linB = sys[2]
          /\ Given(NoCircuit, undefined, undefined, undefined)
    /\ Idle
    /\ result = Err("none")

\* a call of solveCircuitMNA on a circuit other than the one the caller holds
SolveOther ==
    /\ pc = "ready"
    /\ pc' = "solveCircuitMNA"
    /\ \E c \in OtherCircuits :
           /\ result' = solveCircuitMNA(c, [refNode |-> undefined])
           /\ calls' = Append(calls, Call("solveCircuitMNA", FALSE,
                                          [circuit |-> c, opts |-> [refNode |-> undefined]],
                                          result'))
    /\ UNCHANGED <<format, linA, linB, circuit, opts, termA, termB, targets, answers,
                   appState>>

\* the caller goes on to its next call
Return ==
    /\ pc # "ready"
    /\ Len(calls) < MaxCalls
    /\ pc' = "ready"
    /\ UNCHANGED <<format, linA, linB, circuit, opts, termA, termB, targets, answers,
                   appState, result, calls>>

NextSeq ==
    \/ CallSolveLinearSystem
    \/ CallSolveCircuitMNA
    \/ CallEquivalentResistanceAB
    \/ SolveOther
    \/ Return

SpecSeq == InitSeq /\ [][NextSeq]_vars

----------------------------------------------------------------------------

(* Calls of validateAnswers in double arithmetic: the circuit is solved,    *)
(* then answers are validated against the Solution, as the application and *)
(* the tests do                                                             *)

\* demoCircuit(): the circuit and the targets of the demo
DemoCircuit ==
    MkCircuit(<<"n0", "n1", "n2", "n3">>,
              <<<<"V", "n1", "n0", 12>>, <<"V", "n0", "n3", 5>>,
                <<"R", "n1", "n2", 220>>, <<"R", "n2", "n0", 330>>,
                <<"R", "n2", "n3", 470>>, <<"R", "n1", "n3", 680>>>>)
DemoTargets ==
    [voltages |-> <<[id |-> "V_n1n2", a |-> "n1", b |-> "n2"],
                    [id |-> "V_n2n3", a |-> "n2", b |-> "n3"],
                    [id |-> "V_n1n3", a |-> "n1", b |-> "n3"]>>,
     currents |-> <<[elementId |-> "e3"], [elementId |-> "e4"],
                    [elementId |-> "e5"], [elementId |-> "e6"]>>,
     req |-> <<[A |-> "n1", B |-> "n3"]>>]

\* targets on the circuits of the solver's tests: among them a voltage
\* between a node and itself and a terminal pair shorted by a voltage source
DividerTargets ==
    [voltages |-> <<[id |-> "V_n2", a |-> "n2", b |-> "0"],
                    [id |-> "V_n1n1", a |-> "n1", b |-> "n1"]>>,
     currents |-> <<[elementId |-> "e2"], [elementId |-> "e1"]>>,
     req |-> <<[A |-> "n1", B |-> "0"]>>]
OpposingTargets ==
    [voltages |-> <<[id |-> "V_ab", a |-> "a", b |-> "b"],
                    [id |-> "V_b", a |-> "b", b |-> "0"]>>,
     currents |-> <<[elementId |-> "e3"], [elementId |-> "e4"]>>,
     req |-> <<>>]
ValidateInputs ==
    {<<DemoCircuit, DemoTargets>>, <<TestDivider, DividerTargets>>,
     <<TestOpposing, OpposingTargets>>}

\* a submitted value for the expected value e: e itself, e plus 1/128 or
\* 1/64, e times 1 + 1/128 or 1 + 1/64, or 0
Submissions == {"same", "plus 1/128", "plus 1/64", "times 129/128", "times 65/64", "zero"}
Submitted(e, kind) ==
    IF kind = "same" THEN e
    ELSE IF kind = "plus 1/128" THEN Add(e, Div(Num(1), Num(128)))
    ELSE IF kind = "plus 1/64" THEN Add(e, Div(Num(1), Num(64)))
    ELSE IF kind = "times 129/128" THEN Mul(e, Div(Num(129), Num(128)))
    ELSE IF kind = "times 65/64" THEN Mul(e, Div(Num(65), Num(64)))
    ELSE NumZero

\* the answers: one kind of submission for the voltages, one for the
\* currents ("none": no entry at all), and req given or not
VoltageAnswers(sol, qs, kind) ==
    IF kind = "none" THEN EmptyRecord
    ELSE [id \in {qs[i].id : i \in 1..Len(qs)} |->
             LET q == qs[CHOOSE i \in 1..Len(qs) : qs[i].id = id]
             IN  Submitted(voltageDiff(sol, q.a, q.b), kind)]
CurrentAnswers(sol, qs, kind) ==
    IF kind = "none" THEN EmptyRecord
    ELSE [id \in {qs[i].elementId : i \in 1..Len(qs)} |-> Submitted(sol.I[id], kind)]
ReqAnswer(c, ts, kind) ==
    IF kind = "none" \/ ts.req = <<>> THEN <<>>
    ELSE <<Submitted(equivalentResistanceAB(c, ts.req[1].A, ts.req[1].B).value, kind)>>
AnswersGiven(c, sol, ts, kv, ki, kr) ==
    [voltages |-> VoltageAnswers(sol, ts.voltages, kv),
     currents |-> CurrentAnswers(sol, ts.currents, ki),
     req |-> ReqAnswer(c, ts, kr)]

InitValidate ==
    /\ format = "double"
    /\ pc = "ready"
    /\ linA = <<>>
    /\ linB = <<>>
    /\ \E in \in ValidateInputs :
           /\ Given(in[1], undefined, undefined, undefined)
           /\ targets = in[2]
    /\ answers = NoAnswers
    /\ appState = undefined
    /\ calls = <<>>
    /\ result = Err("none")

\* validateAnswers(circuit, sol, targets, answers) on the Solution sol that
\* solveCircuitMNA returned, with the default tolerances
CallValidateAnswers ==
    /\ pc = "solveCircuitMNA"
    /\ result.status = "ok"
    /\ pc' = "validateAnswers"
    /\ \E kv \in Submissions \cup {"none"}, ki \in Submissions \cup {"none"},
          kr \in {"none", "same", "plus 1/64"} :
           answers' = AnswersGiven(circuit, result, targets, kv, ki, kr)
    /\ result' = validateAnswers(circuit, result, targets, answers', defaultTol)
    /\ calls' = Append(calls, Call("validateAnswers", TRUE,
                                   [sol |-> result, answers |-> answers'], result'))
    /\ UNCHANGED <<format, linA, linB, circuit, opts, termA, termB, targets, appState>>

NextValidate == CallSolveCircuitMNA \/ CallValidateAnswers

SpecValidate == InitValidate /\ [][NextValidate]_vars

----------------------------------------------------------------------------

(* Calls of encodeState and decodeState on bounded inputs *)

\* the characters of the strings that the states below are made of
Chars(text) ==
    CASE text = "circuit" -> <<99, 105, 114, 99, 117, 105, 116>>
      [] text = "nodes" -> <<110, 111, 100, 101, 115>>
      [] text = "elements" -> <<101, 108, 101, 109, 101, 110, 116, 115>>
      [] text = "terminals" -> <<116, 101, 114, 109, 105, 110, 97, 108, 115>>
      [] text = "kind" -> <<107, 105, 110, 100>>
      [] text = "id" -> <<105, 100>>
      [] text = "a" -> <<97>>
      [] text = "b" -> <<98>>
      [] text = "ohms" -> <<111, 104, 109, 115>>
      [] text = "volts" -> <<118, 111, 108, 116, 115>>
      [] text = "amps" -> <<97, 109, 112, 115>>
      [] text = "A" -> <<65>>
      [] text = "B" -> <<66>>
      [] text = "targets" -> <<116, 97, 114, 103, 101, 116, 115>>
      [] text = "voltages" -> <<118, 111, 108, 116, 97, 103, 101, 115>>
      [] text = "currents" -> <<99, 117, 114, 114, 101, 110, 116, 115>>
      [] text = "req" -> <<114, 101, 113>>
      [] text = "elementId" -> <<101, 108, 101, 109, 101, 110, 116, 73, 100>>
      [] text = "label" -> <<108, 97, 98, 101, 108>>
      [] text = "R" -> <<82>>
      [] text = "V" -> <<86>>
      [] text = "I" -> <<73>>
      [] text = "n1" -> <<110, 49>>
      [] text = "0" -> <<48>>
      [] text = "V1" -> <<86, 49>>
      [] text = "I1" -> <<73, 49>>
      [] text = "R1" -> <<82, 49>>
      [] text = "V_n1n0" -> <<86, 95, 110, 49, 110, 48>>
      [] text = "V(n1,0)" -> <<86, 40, 110, 49, 44, 48, 41>>
      [] text = "I(R1) n1→0" -> <<73, 40, 82, 49, 41, 32, 110, 49, 8594, 48>>
      [] text = "n1 >>> 0 ???" -> <<110, 49, 32, 62, 62, 62, 32, 48, 32, 63, 63, 63>>

String(text) == JsString(Chars(text))
Integer(n) == JsNumber(n < 0, IF n < 0 THEN -n ELSE n)
Named(key, value) == Prop(Chars(key), value)

\* the elements of types.ts as JavaScript values
ResistorValue(id, a, b, ohms) ==
    JsObject(<<Named("kind", String("R")), Named("id", String(id)), Named("a", String(a)),
               Named("b", String(b)), Named("ohms", ohms)>>)
VSourceValue(id, a, b, volts) ==
    JsObject(<<Named("kind", String("V")), Named("id", String(id)), Named("a", String(a)),
               Named("b", String(b)), Named("volts", volts)>>)
ISourceValue(id, a, b, amps) ==
    JsObject(<<Named("kind", String("I")), Named("id", String(id)), Named("a", String(a)),
               Named("b", String(b)), Named("amps", amps)>>)

\* an optional property: left out, present with the value undefined, or
\* present with a value
Optional(key, choice, value) ==
    IF choice = "absent" THEN <<>>
    ELSE IF choice = "undefined" THEN <<Named(key, JsUndefined)>>
    ELSE <<Named(key, value)>>
Terminals(A, B) == JsObject(<<Named("A", String(A)), Named("B", String(B))>>)

\* a Circuit with its properties in the order of demoCircuit, and the
\* ValidationTargets
CircuitValue(nodes, terminals, elements) ==
    JsObject(<<Named("nodes", JsArray(nodes))>> \o terminals
                 \o <<Named("elements", JsArray(elements))>>)
VoltageTarget(id, a, b, label) ==
    JsObject(<<Named("id", String(id)), Named("a", String(a)), Named("b", String(b))>>
                 \o label)
CurrentTarget(elementId, label) == JsObject(<<Named("elementId", String(elementId))>> \o label)
TargetsValue(voltages, currents, req) ==
    JsObject(<<Named("voltages", JsArray(voltages)), Named("currents", JsArray(currents))>>
                 \o req)

\* const s: AppState = { circuit, targets }
AppStateValue(c, ts) == JsObject(<<Named("circuit", c), Named("targets", ts)>>)

\* the states that the program builds: a source and a resistor between n1
\* and 0, one voltage target and one current target, with labels as in
\* demoCircuit or with the characters > and ?
ShareElements ==
    {<<VSourceValue("V1", "n1", "0", Integer(v)), ResistorValue("R1", "n1", "0", Integer(220))>> :
         v \in {12, -5, 0}}
        \cup {<<ISourceValue("I1", "n1", "0", Integer(1)),
                ResistorValue("R1", "n1", "0", Integer(330))>>}
VoltageLabels ==
    {Optional("label", "absent", JsNull), Optional("label", "undefined", JsNull),
     Optional("label", "given", String("V(n1,0)")),
     Optional("label", "given", String("n1 >>> 0 ???"))}
CurrentLabels ==
    {Optional("label", "absent", JsNull), Optional("label", "given", String("I(R1) n1→0"))}
BuiltStates ==
    {AppStateValue(
         CircuitValue(<<String("n1"), String("0")>>,
                      Optional("terminals", terminals, Terminals("n1", "0")), es),
         TargetsValue(<<VoltageTarget("V_n1n0", "n1", "0", vl)>>, <<CurrentTarget("R1", il)>>,
                      Optional("req", req, Terminals("n1", "0")))) :
         es \in ShareElements, terminals \in {"absent", "given"}, vl \in VoltageLabels,
         il \in CurrentLabels, req \in {"absent", "given"}}


\* JSON texts that encodeState did not write, as a link made by hand or by
\* another program carries them:
\*   {"circuit":{"nodes":["n1","0"],"elements":[{"kind":"V","id":"V1","a":"n1","b":"0","volts":-0}]},"targets":{"voltages":[],"currents":[]}}
\*   {"circuit":{"nodes":["n1","0"],"elements":[{"kind":"R","id":"R1","a":"n1","b":"0","ohms":1e999}]},"targets":{"voltages":[],"currents":[]}}
LinkTexts ==
    {<<123, 34, 99, 105, 114, 99, 117, 105, 116, 34, 58, 123, 34, 110, 111, 100, 101, 115,
      34, 58, 91, 34, 110, 49, 34, 44, 34, 48, 34, 93, 44, 34, 101, 108, 101, 109, 101,
      110, 116, 115, 34, 58, 91, 123, 34, 107, 105, 110, 100, 34, 58, 34, 86, 34, 44, 34,
      105, 100, 34, 58, 34, 86, 49, 34, 44, 34, 97, 34, 58, 34, 110, 49, 34, 44, 34, 98,
      34, 58, 34, 48, 34, 44, 34, 118, 111, 108, 116, 115, 34, 58, 45, 48, 125, 93, 125,
      44, 34, 116, 97, 114, 103, 101, 116, 115, 34, 58, 123, 34, 118, 111, 108, 116, 97,
      103, 101, 115, 34, 58, 91, 93, 44, 34, 99, 117, 114, 114, 101, 110, 116, 115, 34,
      58, 91, 93, 125, 125>>,
     <<123, 34, 99, 105, 114, 99, 117, 105, 116, 34, 58, 123, 34, 110, 111, 100, 101, 115,
      34, 58, 91, 34, 110, 49, 34, 44, 34, 48, 34, 93, 44, 34, 101, 108, 101, 109, 101,
      110, 116, 115, 34, 58, 91, 123, 34, 107, 105, 110, 100, 34, 58, 34, 82, 34, 44, 34,
      105, 100, 34, 58, 34, 82, 49, 34, 44, 34, 97, 34, 58, 34, 110, 49, 34, 44, 34, 98,
      34, 58, 34, 48, 34, 44, 34, 111, 104, 109, 115, 34, 58, 49, 101, 57, 57, 57, 125,
      93, 125, 44, 34, 116, 97, 114, 103, 101, 116, 115, 34, 58, 123, 34, 118, 111, 108,
      116, 97, 103, 101, 115, 34, 58, 91, 93, 44, 34, 99, 117, 114, 114, 101, 110, 116,
      115, 34, 58, 91, 93, 125, 125>>}

\* the part of the address after #s= for these texts
Links == {base64UrlEncode(Utf8Encode(text)) : text \in LinkTexts}

\* loadStateFromHash(): the state decoded from the link, null if decodeState
\* throws
LoadedStates == {decodeState(h).value : h \in {l \in Links : decodeState(l).status = "ok"}}

\* useState(() => loadStateFromHash() ?? demoCircuit())
InitShare ==
    /\ format = "exact"
    /\ pc = "ready"
    /\ linA = <<>>
    /\ linB = <<>>
    /\ Given(NoCircuit, undefined, undefined, undefined)
    /\ targets = NoTargets
    /\ answers = NoAnswers
    /\ appState \in BuiltStates \cup LoadedStates
    /\ calls = <<>>
    /\ result = Err("none")

\* onShare: encodeState(state)
CallEncodeState ==
    /\ pc = "ready"
    /\ pc' = "encodeState"
    /\ result' = [status |-> "ok", value |-> encodeState(appState)]
    /\ calls' = Append(calls, Call("encodeState", TRUE, [state |-> appState], result'))
    /\ UNCHANGED <<format, linA, linB, circuit, opts, termA, termB, targets, answers, appState>>

\* decodeState(enc) on the text that encodeState returned
CallDecodeState ==
    /\ pc = "encodeState"
    /\ pc' = "decodeState"
    /\ result' = decodeState(result.value)
    /\ calls' = Append(calls, Call("decodeState", TRUE, [s |-> result.value], result'))
    /\ UNCHANGED <<format, linA, linB, circuit, opts, termA, termB, targets, answers, appState>>

NextShare == CallEncodeState \/ CallDecodeState

SpecShare == InitShare /\ [][NextShare]_vars

----------------------------------------------------------------------------

(* Exact linear algebra used to state the claims *)

\* A without row 1 and column j
Minor(A, j) ==
    [r \in 1..(Len(A) - 1) |->
        [c \in 1..(Len(A) - 1) |-> A[r + 1][IF c < j THEN c ELSE c + 1]]]

\* the determinant, by expansion along the first row
RECURSIVE Det(_)
RECURSIVE DetTerms(_, _)
DetTerms(A, j) ==
    IF j > Len(A) THEN Zero
    ELSE LET t == RMul(A[1][j], Det(Minor(A, j)))
         IN  RAdd(IF j % 2 = 1 THEN t ELSE RNeg(t), DetTerms(A, j + 1))
Det(A) == IF Len(A) = 0 THEN One ELSE DetTerms(A, 1)

RECURSIVE Dot(_, _, _)
Dot(row, x, j) ==
    IF j > Len(row) THEN Zero ELSE RAdd(RMul(row[j], x[j]), Dot(row, x, j + 1))

\* the product A x
MatVec(A, x) == [i \in 1..Len(A) |-> Dot(A[i], x, 1)]

\* A y = b for a vector y of integers and integer-valued A and b
RECURSIVE IntDot(_, _, _)
IntDot(row, y, j) ==
    IF j > Len(row) THEN 0 ELSE row[j][1] * y[j] + IntDot(row, y, j + 1)
IntSolves(A, y, b) == \A i \in 1..Len(A) : IntDot(A[i], y, 1) = b[i][1]

----------------------------------------------------------------------------
(* Claims *)

\* C1: for a square system A x = b in exact arithmetic, solveLinearSystem
\* returns the one x with A x = b when A is nonsingular (det A # 0), and
\* fails with SingularMatrix, returning no vector, when A is singular.
C1_LinearSolveCorrect ==
    pc = "solveLinearSystem" =>
        IF Det(linA) # Zero
        THEN /\ result.status = "ok"
             /\ Len(result.x) = Len(linA)
             /\ MatVec(linA, result.x) = linB
             /\ \A y \in Vectors(Len(linA), (-MaxEntry)..MaxEntry) :
                    IntSolves(linA, y, linB) => result.x = [j \in 1..Len(y) |-> Rat(y[j])]
        ELSE /\ result.status = "SingularMatrix"
             /\ "x" \notin DOMAIN result

\* a nonsingular system of dimension 3 whose first pivot needs a row swap
C1_Witness ==
    /\ pc = "solveLinearSystem"
    /\ Len(linA) = 3
    /\ linA[1][1] = Zero
    /\ result.status = "ok"
    /\ MatVec(linA, result.x) = linB

\* the elements of a circuit, and whether all their endpoints are nodes
Elems(c) == Range(c.elements)
EndpointsInNodes(c) == \A e \in Elems(c) : e.a \in Range(c.nodes) /\ e.b \in Range(c.nodes)
Solved == pc = "solveCircuitMNA" /\ result.status = "ok"

\* the current of the elements of es leaving node n minus the current entering
\* it, by the reported I and the a -> b convention
RECURSIVE KclSum(_, _, _, _)
KclSum(es, I, n, i) ==
    IF i > Len(es) THEN Zero
    ELSE LET e == es[i]
             leaving == IF e.a = n THEN I[e.id] ELSE Zero
             entering == IF e.b = n THEN I[e.id] ELSE Zero
         IN  RAdd(RSub(leaving, entering), KclSum(es, I, n, i + 1))

IsDivider(c) ==
    /\ Range(c.nodes) = {"0", "n1", "n2"}
    /\ Len(c.elements) = 3
    /\ \E v, r1, r2 \in Elems(c) :
          /\ v.kind = "V" /\ v.a = "n1" /\ v.b = "0"
          /\ r1.kind = "R" /\ {r1.a, r1.b} = {"n1", "n2"}
          /\ r2.kind = "R" /\ r2.a = "n2" /\ r2.b = "0"
DividerV(c) == CHOOSE e \in Elems(c) : e.kind = "V"
DividerR1(c) == CHOOSE e \in Elems(c) : e.kind = "R" /\ {e.a, e.b} = {"n1", "n2"}
DividerR2(c) == CHOOSE e \in Elems(c) : e.kind = "R" /\ e.a = "n2" /\ e.b = "0"

\* C4: the series divider gives V[n2] = Vs R2 / (R1 + R2), V[n1] - V[0] = Vs
\* and I[R2] = Vs / (R1 + R2), positive from n2 to 0; with Vs = 10 and
\* R1 = R2 = 1000 this is V[n2] = 5 and I[R2] = 0.005.
C4_SeriesDivider ==
    pc = "solveCircuitMNA" /\ IsDivider(circuit) /\ opts.refNode = undefined
        /\ DividerR1(circuit).ohms[1] > 0 /\ DividerR2(circuit).ohms[1] > 0 =>
        LET vs == DividerV(circuit).volts
            r1 == DividerR1(circuit).ohms
            r2 == DividerR2(circuit)
            sum == RAdd(r1, r2.ohms)
        IN  /\ result.status = "ok"
            /\ result.V["n2"] = RDiv(RMul(vs, r2.ohms), sum)
            /\ RSub(result.V["n1"], result.V["0"]) = vs
            /\ result.I[r2.id] = RDiv(vs, sum)
            /\ RLess(Zero, vs) => RLess(Zero, result.I[r2.id])
            /\ circuit = TestDivider =>
                  result.V["n2"] = Rat(5) /\ result.I[r2.id] = RDiv(Rat(5), Rat(1000))

\* the divider of the tests is solved: 5 V at n2 and 5 mA through R2
C4_Witness ==
    /\ Solved
    /\ circuit = TestDivider
    /\ result.V["n2"] = Rat(5)
    /\ result.I["e3"] = RDiv(Rat(5), Rat(1000))

\* the first name of the preference list that is a node, else the first node
PreferenceList == <<"0", "GND", "gnd", "ref", "REF">>
AutoRef(nodes) ==
    LET hits == {i \in 1..Len(PreferenceList) : PreferenceList[i] \in Range(nodes)}
    IN  IF hits = {} THEN nodes[1]
        ELSE PreferenceList[CHOOSE i \in hits : \A j \in hits : i <= j]

\* C6: the reference node of a returned Solution is opts.refNode when given,
\* otherwise the first entry of ["0","GND","gnd","ref","REF"] that is a node
\* (the order of the list decides, not the order of the nodes), otherwise
\* nodes[0].
C6_ReferenceNodeChoice ==
    Solved =>
        result.refNode =
            IF opts.refNode # undefined THEN opts.refNode ELSE AutoRef(circuit.nodes)

\* the first node is a preferred name, and a later node that comes earlier in
\* the list is chosen
C6_Witness ==
    /\ Solved
    /\ opts.refNode = undefined
    /\ circuit.nodes[1] = "ref"
    /\ result.refNode = "0"

ExplicitRefAbsent == opts.refNode # undefined /\ opts.refNode \notin Range(circuit.nodes)

\* C7 as stated: an explicit reference node that is no node of the circuit
\* makes solveCircuitMNA fail with InvalidReferenceNode.
C7_Original ==
    pc = "solveCircuitMNA" /\ ExplicitRefAbsent => result = Err("InvalidReferenceNode")

\* C7 amended: for a circuit with at least 2 nodes, an explicit reference
\* node that is no node of the circuit makes solveCircuitMNA fail with
\* InvalidReferenceNode; no Solution with the automatic choice is returned.
C7_InvalidReferenceNode ==
    pc = "solveCircuitMNA" /\ ExplicitRefAbsent /\ Len(circuit.nodes) >= 2 =>
        result = Err("InvalidReferenceNode")

\* an override that is no node, on a circuit the automatic choice would solve
C7_Witness ==
    /\ pc = "solveCircuitMNA"
    /\ opts.refNode = "zz"
    /\ Len(circuit.nodes) = 3
    /\ "0" \in Range(circuit.nodes)
    /\ result = Err("InvalidReferenceNode")

\* C8: a circuit with fewer than 2 nodes fails with InsufficientNodes,
\* whatever its elements and options.
C8_InsufficientNodes ==
    pc = "solveCircuitMNA" /\ Len(circuit.nodes) < 2 => result = Err("InsufficientNodes")

\* one node, two elements and a reference node override
C8_Witness ==
    /\ pc = "solveCircuitMNA"
    /\ Len(circuit.nodes) = 1
    /\ Len(circuit.elements) = 2
    /\ opts.refNode = circuit.nodes[1]
    /\ result = Err("InsufficientNodes")

IsBadResistor(e) == e.kind = "R" /\ Leq(e.ohms, NumZero)
HasBadResistor(c) == \E e \in Elems(c) : IsBadResistor(e)

\* C9: with at least 2 nodes and a valid reference node, a Resistor with
\* ohms <= 0 anywhere in the element list makes solveCircuitMNA and
\* equivalentResistanceAB fail with InvalidElement.
C9_InvalidElement ==
    /\ pc \in {"solveCircuitMNA", "equivalentResistanceAB"}
    /\ Len(circuit.nodes) >= 2
    /\ HasBadResistor(circuit)
    /\ (pc = "solveCircuitMNA" => ~ExplicitRefAbsent)
    => result = Err("InvalidElement")

\* the resistor with ohms <= 0 is the last of three elements, after a good one
C9_Witness ==
    /\ pc = "equivalentResistanceAB"
    /\ Len(circuit.elements) = 3
    /\ IsBadResistor(circuit.elements[3])
    /\ circuit.elements[1].kind = "R" /\ ~IsBadResistor(circuit.elements[1])
    /\ circuit.elements[2].kind = "V"
    /\ result = Err("InvalidElement")

\* the reference node of the call: the override, else the automatic choice
RefOfCall == IF opts.refNode # undefined THEN opts.refNode ELSE AutoRef(circuit.nodes)

\* the nodes joined to the nodes of S by a path of the elements es
RECURSIVE Connected(_, _)
Connected(es, S) ==
    LET T == S \cup {e.b : e \in {f \in es : f.a \in S}}
               \cup {e.a : e \in {f \in es : f.b \in S}}
    IN  IF T = S THEN S ELSE Connected(es, T)

\* the nodes with no element path to the reference node: the nodes that no
\* element references and the groups connected only among themselves
FloatingNodes(c, ref) == Range(c.nodes) \ Connected(Elems(c), {ref})

\* a call that passes the checks made before the linear system is solved
WellFormed(c) == Len(c.nodes) >= 2 /\ ~HasBadResistor(c)

\* C5: solveCircuitMNA fails with SingularMatrix, and returns no Solution,
\* for every circuit (of at least 2 nodes, a valid reference node and no
\* resistor with ohms <= 0) that has a node referenced by no element or a
\* group of nodes with no element path to the reference node.
C5_FloatingNodesSingular ==
    /\ pc = "solveCircuitMNA"
    /\ WellFormed(circuit)
    /\ ~ExplicitRefAbsent
    /\ FloatingNodes(circuit, RefOfCall) # {}
    => result = Err("SingularMatrix")

\* the elements that conduct in the source-deactivated circuit: the
\* resistors and the voltage sources set to 0 V
Conducting(c) == {e \in Elems(c) : e.kind \in {"R", "V"}}

\* the terminals are nodes of different connected components
DifferentComponents(c, A, B) ==
    /\ A \in Range(c.nodes)
    /\ B \in Range(c.nodes)
    /\ B \notin Connected(Conducting(c), {A})

\* C10: a SingularMatrix failure of the linear solver is the failure of
\* solveCircuitMNA, a failure of solveCircuitMNA on the test circuit is the
\* failure of equivalentResistanceAB, and equivalentResistanceAB fails with
\* SingularMatrix whenever terminalA and terminalB lie in different connected
\* components of the source-deactivated circuit (of at least 2 nodes and no
\* resistor with ohms <= 0).
C10_FailuresRaisedUnchanged ==
    /\ pc = "solveCircuitMNA" /\ WellFormed(circuit) /\ ~ExplicitRefAbsent =>
           LET S == Assemble(circuit.nodes, circuit.elements, RefOfCall)
           IN  solveLinearSystem(S.A, S.z) = Err("SingularMatrix")
                   => result = Err("SingularMatrix")
    /\ pc = "equivalentResistanceAB" =>
           LET sol == solveCircuitMNA(testCircuitOf(circuit, termA, termB),
                                      [refNode |-> undefined])
           IN  sol.status # "ok" => result = sol
    /\ pc = "equivalentResistanceAB" /\ WellFormed(circuit)
           /\ DifferentComponents(circuit, termA, termB)
           => result = Err("SingularMatrix")

----------------------------------------------------------------------------
(* The equivalent-resistance computation *)

\* the circuit the computation is to solve: the resistors and the voltage
\* sources in their order, the latter at 0 volts, then the test source
IsRorV(e) == e.kind \in {"R", "V"}
Shorted(e) == IF e.kind = "V" THEN VSource(e.id, e.a, e.b, NumZero) ELSE e
ExpectedTestCircuit(c, A, B) ==
    LET kept == SelectSeq(c.elements, IsRorV)
    IN  [nodes |-> c.nodes,
         elements |-> [i \in 1..Len(kept) |-> Shorted(kept[i])]
                          \o <<ISource("I_test", A, B, Num(1))>>]
AutoOpts == [refNode |-> undefined]
ReqCalled == pc = "equivalentResistanceAB"

\* C11: equivalentResistanceAB solves the circuit with the same nodes whose
\* elements are the resistors unchanged and in order, the voltage sources as
\* copies with volts = 0, no current source of the input, and last one
\* current source of 1 A from terminalA to terminalB.
C11_TransformedCircuit ==
    ReqCalled =>
        /\ testCircuitOf(circuit, termA, termB)
               = ExpectedTestCircuit(circuit, termA, termB)
        /\ result = ResistanceOf(solveCircuitMNA(
                                     ExpectedTestCircuit(circuit, termA, termB),
                                     AutoOpts), termA, termB)

\* a resistance returned for a circuit with a resistor, a voltage source of
\* nonzero volts and a current source
C11_Witness ==
    /\ ReqCalled
    /\ result.status = "ok"
    /\ \A k \in {"R", "V", "I"} : \E e \in Elems(circuit) : e.kind = k
    /\ \E e \in Elems(circuit) : e.kind = "V" /\ e.volts # NumZero
    /\ Len(ExpectedTestCircuit(circuit, termA, termB).elements) = 3

\* the solution of the transformed circuit and its signed difference
\* V(terminalA) - V(terminalB), an absent entry of V counting as 0
TestSolution == solveCircuitMNA(ExpectedTestCircuit(circuit, termA, termB), AutoOpts)
Raw(sol, A, B) ==
    Sub(IF A \in DOMAIN sol.V THEN sol.V[A] ELSE NumZero,
        IF B \in DOMAIN sol.V THEN sol.V[B] ELSE NumZero)
ReqReturned == ReqCalled /\ result.status = "ok"

\* C12: a returned equivalent resistance is |V(terminalA) - V(terminalB)| of
\* the solution of the transformed circuit, and never negative.
C12_MagnitudeOfDifference ==
    ReqReturned =>
        /\ result.value \in {Raw(TestSolution, termA, termB),
                              Neg(Raw(TestSolution, termA, termB))}
        /\ ~Less(result.value, NumZero)

\* a returned resistance whose signed difference is negative
C12_Witness ==
    /\ ReqReturned
    /\ Less(Raw(TestSolution, termA, termB), NumZero)
    /\ result.value = Neg(Raw(TestSolution, termA, termB))

\* the solution of the transformed circuit of c with reference node r
SolutionAt(c, A, B, r) == solveCircuitMNA(testCircuitOf(c, A, B), [refNode |-> r])
Positive(x) == Less(NumZero, x)
Negative(x) == Less(x, NumZero)

\* the reference node choice flips the sign of the signed difference of c
SolvedPositive(sol, A, B) == sol.status = "ok" /\ Positive(Raw(sol, A, B))
SolvedNegative(sol, A, B) == sol.status = "ok" /\ Negative(Raw(sol, A, B))
SignFlips(c, A, B) ==
    /\ \E r \in Range(c.nodes) : SolvedPositive(SolutionAt(c, A, B, r), A, B)
    /\ \E r \in Range(c.nodes) : SolvedNegative(SolutionAt(c, A, B, r), A, B)

\* the circuits on three nodes of up to three resistors and voltage sources
SignElements == Rs({"n1", "n2", "n3"}, GoodOhms) \cup Vs({"n1", "n2", "n3"})
SignCircuits ==
    {MkCircuit(<<"n1", "n2", "n3">>, ts) :
        ts \in UNION {[1..k -> SignElements] : k \in 0..3}}

IsParallelPair(c, A, B) ==
    /\ Len(c.nodes) = 2 /\ A # B /\ Range(c.nodes) = {A, B}
    /\ Len(c.elements) = 2
    /\ \A e \in Elems(c) : e.kind = "R" /\ {e.a, e.b} = {A, B} /\ ~IsBadResistor(e)
ParallelValue(c) ==
    Div(Mul(c.elements[1].ohms, c.elements[2].ohms),
        Add(c.elements[1].ohms, c.elements[2].ohms))

\* C14: for two resistors R1 and R2 between the nodes A and B and nothing
\* else, equivalentResistanceAB(A, B) = R1 R2 / (R1 + R2), and the magnitude
\* of the difference is that value under either node as reference node.
C14_ParallelResistors ==
    ReqCalled /\ IsParallelPair(circuit, termA, termB) =>
        /\ result = [status |-> "ok", value |-> ParallelValue(circuit)]
        /\ \A r \in Range(circuit.nodes) :
               /\ SolutionAt(circuit, termA, termB, r).status = "ok"
               /\ SolutionAt(circuit, termA, termB, r).refNode = r
               /\ Abs(Raw(SolutionAt(circuit, termA, termB, r), termA, termB))
                      = ParallelValue(circuit)

\* 100 and 300 ohms give 75 with terminalA the automatic reference node,
\* and with the other node as reference node
C14_Witness ==
    /\ ReqCalled /\ IsParallelPair(circuit, termA, termB)
    /\ {e.ohms : e \in Elems(circuit)} = {Num(100), Num(300)}
    /\ pickRefNode(circuit.nodes) = termA
    /\ result.value = Num(75)
    /\ Abs(Raw(SolutionAt(circuit, termA, termB, termB), termA, termB)) = Num(75)

\* c with the fields a and b of its i-th element swapped
Swapped(c, i) ==
    [c EXCEPT !.elements[i] = [@ EXCEPT !.a = c.elements[i].b, !.b = c.elements[i].a]]
ResistorIndices(c) == {i \in 1..Len(c.elements) : c.elements[i].kind = "R"}
OtherIds(c, i) == {e.id : e \in Elems(c)} \ {c.elements[i].id}

\* the Solution sol differs from the Solution of the call in the sign of the
\* current of the element id and in nothing else
OnlyCurrentNegated(sol, id, ids) ==
    /\ sol.status = "ok"
    /\ sol.refNode = result.refNode
    /\ sol.V = result.V
    /\ sol.I[id] = Neg(result.I[id])
    /\ \A j \in ids : sol.I[j] = result.I[j]

\* C15: swapping the fields a and b of one resistor of a solvable circuit
\* negates the reported current of that resistor, leaves every node voltage
\* and every other current unchanged, and leaves the equivalent resistance
\* between the terminals unchanged.
C15_ResistorSwap ==
    /\ Solved =>
           \A i \in ResistorIndices(circuit) :
               OnlyCurrentNegated(solveCircuitMNA(Swapped(circuit, i), opts),
                                  circuit.elements[i].id, OtherIds(circuit, i))
    /\ ReqReturned =>
           \A i \in ResistorIndices(circuit) :
               /\ equivalentResistanceAB(Swapped(circuit, i), termA, termB) = result
               /\ equivalentResistanceAB(Swapped(circuit, i), termB, termA) = result

\* a solved circuit of three elements in which a resistor from the
\* reference node carries a current
C15_Witness ==
    /\ Solved
    /\ Len(circuit.elements) = 3
    /\ \E i \in ResistorIndices(circuit) :
           /\ result.I[circuit.elements[i].id] # NumZero
           /\ result.refNode = circuit.elements[i].a
           /\ solveCircuitMNA(Swapped(circuit, i), opts).I[circuit.elements[i].id]
                  = Neg(result.I[circuit.elements[i].id])

----------------------------------------------------------------------------
(* The assembled system *)

\* the call reaches the assembly of the system: the node checks passed
Assembling == pc = "solveCircuitMNA" /\ Len(circuit.nodes) >= 2 /\ ~ExplicitRefAbsent
System == Assemble(circuit.nodes, circuit.elements, RefOfCall)
Stamped == Assembling /\ ~HasBadResistor(circuit)

\* the positions in nodes of the nodes other than the reference node, and the
\* positions in elements of the voltage sources
UnknownPositions == {p \in 1..Len(circuit.nodes) : circuit.nodes[p] # RefOfCall}
SourcePositions == {p \in 1..Len(circuit.elements) : circuit.elements[p].kind = "V"}
CountM == Cardinality(UnknownPositions)
CountK == Cardinality(SourcePositions)

\* the index (from 1) of the node at position p: its rank among the
\* unknown positions; the index of the voltage source at position p: m plus
\* its rank among the source positions
Rank(S, p) == Cardinality({q \in S : q <= p})
Idx(n) == Rank(UnknownPositions, CHOOSE p \in UnknownPositions : circuit.nodes[p] = n)
SourceIdx(p) == CountM + Rank(SourcePositions, p)
IsSquareOf(A, z, N) == Len(A) = N /\ Len(z) = N /\ \A i \in 1..N : Len(A[i]) = N

\* the circuit with nothing to stamp: no resistor, no current source, and
\* each voltage source at 0 volts between the reference node and itself
Unstamped(e) == VSource(e.id, RefOfCall, RefOfCall, NumZero)
BlankElements ==
    LET vs == SelectSeq(circuit.elements, IsV)
    IN  [j \in 1..Len(vs) |-> Unstamped(vs[j])]
BlankSystem == Assemble(circuit.nodes, BlankElements, RefOfCall)

\* C16: with m nodes other than the reference node and k voltage sources
\* the system has N = m + k unknowns, A is N x N and z has length N, all
\* zero before stamping; the i-th non-reference node in the order of nodes
\* has index i and the j-th voltage source in the order of elements has
\* index m + j (the row that holds its volts in z).
C16_UnknownLayout ==
    /\ Stamped =>
           /\ System.m = CountM /\ System.k = CountK
           /\ IsSquareOf(System.A, System.z, CountM + CountK)
           /\ \A p \in SourcePositions :
                  System.z[SourceIdx(p)] = circuit.elements[p].volts
    /\ Assembling =>
           /\ \A p \in UnknownPositions :
                  nodeIndexGet(voltageUnknownNodesOf(circuit.nodes, RefOfCall),
                               circuit.nodes[p]) = Rank(UnknownPositions, p)
           /\ IsSquareOf(BlankSystem.A, BlankSystem.z, CountM + CountK)
           /\ \A i, j \in 1..(CountM + CountK) :
                  BlankSystem.A[i][j] = NumZero /\ BlankSystem.z[i] = NumZero
    /\ Solved => result.A = System.A /\ result.z = System.z

\* a solved circuit with two unknown nodes, the reference node not first in
\* nodes, and a voltage source that is not the first element
C16_Witness ==
    /\ Solved
    /\ CountM = 2 /\ CountK = 1
    /\ circuit.nodes[1] # result.refNode
    /\ circuit.elements[1].kind # "V"
    /\ Len(result.A) = 3

\* the sum of the conductances 1 / ohms of the resistors among the first i
\* elements whose endpoints are the set ends (Between), or include n (At)
Between(e, ends) == e.kind = "R" /\ {e.a, e.b} = ends
At(e, n) == e.kind = "R" /\ n \in {e.a, e.b}
RECURSIVE ConductanceBetween(_, _, _)
ConductanceBetween(es, ends, i) ==
    IF i = 0 THEN Zero
    ELSE RAdd(ConductanceBetween(es, ends, i - 1),
              IF Between(es[i], ends) THEN RDiv(One, es[i].ohms) ELSE Zero)
RECURSIVE ConductanceAt(_, _, _)
ConductanceAt(es, n, i) ==
    IF i = 0 THEN Zero
    ELSE RAdd(ConductanceAt(es, n, i - 1),
              IF At(es[i], n) THEN RDiv(One, es[i].ohms) ELSE Zero)

\* C17: the resistor stamps add up: the diagonal entry of a non-reference
\* node is the sum of g = 1/ohms over the resistors with an endpoint at it,
\* and the entry of two different non-reference nodes is minus the sum of g
\* over the resistors between them; no resistor overwrites another.
C17_ResistorStampsAdditive ==
    Stamped =>
        \A p, q \in UnknownPositions :
            System.A[Rank(UnknownPositions, p)][Rank(UnknownPositions, q)]
                = IF p = q
                  THEN ConductanceAt(circuit.elements, circuit.nodes[p],
                                     Len(circuit.elements))
                  ELSE RNeg(ConductanceBetween(circuit.elements,
                                {circuit.nodes[p], circuit.nodes[q]},
                                Len(circuit.elements)))

\* two resistors of 1 ohm between n1 and n2 and one from n1 to the
\* reference node 0: 3 on the diagonal of n1, -2 between n1 and n2
C17_Witness ==
    /\ Stamped
    /\ RefOfCall = "0"
    /\ Len(circuit.elements) = 3
    /\ \A e \in Elems(circuit) : e.kind = "R"
    /\ System.A[1][1] = Num(3)
    /\ System.A[1][2] = Num(-2)
    /\ System.A[2][2] = Num(2)

\* +1 for the endpoint a of the element e at node n, -1 for the endpoint b
Incidence(e, n) ==
    RSub(IF e.a = n THEN One ELSE Zero, IF e.b = n THEN One ELSE Zero)

\* C18: the voltage source at index m + j has +1 in the row of a and -1 in
\* the row of b of column m + j, +1 in the column of a and -1 in the column
\* of b of row m + j, for the endpoints other than the reference node, and
\* its volts in z[m + j]; the entries of A in the rows and columns of two
\* voltage sources stay 0.
C18_VoltageSourceStamp ==
    Stamped =>
        \A p \in SourcePositions :
            /\ \A q \in UnknownPositions :
                   /\ System.A[Rank(UnknownPositions, q)][SourceIdx(p)]
                          = Incidence(circuit.elements[p], circuit.nodes[q])
                   /\ System.A[SourceIdx(p)][Rank(UnknownPositions, q)]
                          = Incidence(circuit.elements[p], circuit.nodes[q])
            /\ System.z[SourceIdx(p)] = circuit.elements[p].volts
            /\ \A q \in SourcePositions : System.A[SourceIdx(p)][SourceIdx(q)] = Zero

\* two voltage sources with the reference node 0, the second from n2 to n1
C18_Witness ==
    /\ Stamped
    /\ RefOfCall = "0"
    /\ Len(circuit.elements) = 2
    /\ circuit.elements[1].kind = "V"
    /\ circuit.elements[2] = VSource("e2", "n2", "n1", Num(2))
    /\ System.A[1][4] = Num(-1) /\ System.A[2][4] = Num(1)
    /\ System.A[4][1] = Num(-1) /\ System.A[4][2] = Num(1)
    /\ System.z[4] = Num(2)

\* the current injected at node n by the current sources among the first i
\* elements: amps for each source with b = n, minus amps for each with a = n
RECURSIVE Injected(_, _, _)
Injected(es, n, i) ==
    IF i = 0 THEN Zero
    ELSE RAdd(Injected(es, n, i - 1),
              IF es[i].kind = "I" THEN RNeg(RMul(Incidence(es[i], n), es[i].amps))
              ELSE Zero)
IsNotI(e) == e.kind # "I"
WithoutCurrentSources == SelectSeq(circuit.elements, IsNotI)

\* C19: each current source subtracts its amps from z at its a and adds
\* them at its b, except at the reference node; the current sources at one
\* node add up in z, and A is what it is without the current sources.
C19_CurrentSourceStamp ==
    Stamped =>
        /\ \A q \in UnknownPositions :
               System.z[Rank(UnknownPositions, q)]
                   = Injected(circuit.elements, circuit.nodes[q], Len(circuit.elements))
        /\ System.A = Assemble(circuit.nodes, WithoutCurrentSources, RefOfCall).A

\* two current sources of 1 A from n2 to n1 and one from n1 to the
\* reference node 0: 1 in z at n1 and -2 at n2
C19_Witness ==
    /\ Stamped
    /\ RefOfCall = "0"
    /\ Len(circuit.elements) = 3
    /\ \A e \in Elems(circuit) : e.kind = "I"
    /\ System.z = <<Num(1), Num(-2)>>

\* C20: in a returned Solution V[refNode] = 0, V[n] = x[idx(n)] for every
\* other node n of nodes, x being the vector the linear solver returns for
\* the assembled system, and V has an entry for every node of nodes.
C20_NodeVoltages ==
    Solved =>
        /\ Range(circuit.nodes) \subseteq DOMAIN result.V
        /\ result.refNode = RefOfCall
        /\ result.V[result.refNode] = Zero
        /\ result.x = solveLinearSystem(System.A, System.z).x
        /\ \A q \in UnknownPositions :
               result.V[circuit.nodes[q]] = result.x[Rank(UnknownPositions, q)]

\* a Solution with the reference node last in nodes and two different
\* nonzero voltages
C20_Witness ==
    /\ Solved
    /\ result.refNode = circuit.nodes[3]
    /\ result.V[circuit.nodes[1]] # Zero
    /\ result.V[circuit.nodes[2]] # Zero
    /\ result.V[circuit.nodes[1]] # result.V[circuit.nodes[2]]
    /\ result.V[circuit.nodes[2]] = result.x[2]

\* C21: in a returned Solution the current of a voltage source is the entry
\* x[m + sourceIndex] of the solver's vector, the current of a resistor is
\* (V[a] - V[b]) / ohms of the reported voltages, and the current of a
\* current source is its amps.
C21_CurrentMap ==
    Solved =>
        \A p \in 1..Len(circuit.elements) :
            LET e == circuit.elements[p]
            IN  /\ e.id \in DOMAIN result.I
                /\ e.kind = "V" => result.I[e.id] = result.x[SourceIdx(p)]
                /\ e.kind = "R" =>
                       result.I[e.id] = Div(Sub(result.V[e.a], result.V[e.b]), e.ohms)
                /\ e.kind = "I" => result.I[e.id] = e.amps

\* a Solution of a circuit with an element of each kind, where the current
\* of the voltage source is not zero and differs from the first unknown
C21_Witness ==
    /\ Solved
    /\ {circuit.elements[p].kind : p \in 1..Len(circuit.elements)} = {"R", "V", "I"}
    /\ \E p \in SourcePositions :
           /\ result.I[circuit.elements[p].id] # Zero
           /\ result.I[circuit.elements[p].id] # result.x[1]
    /\ \E p \in 1..Len(circuit.elements) :
           /\ circuit.elements[p].kind = "R"
           /\ result.I[circuit.elements[p].id] # Zero

(* The linear solver: shapes and pivots *)

LinearCalled == pc = "solveLinearSystem"
IllShaped ==
    \/ \E i \in 1..Len(linA) : Len(linA[i]) # Len(linA)
    \/ Len(linB) # Len(linA)

\* C22: solveLinearSystem fails with DimensionMismatch when a row of A has a
\* length other than the number of rows or b has a length other than the
\* number of rows, whatever elimination would have found, and only then.
C22_DimensionMismatch ==
    LinearCalled => (result.status = "DimensionMismatch" <=> IllShaped)

\* a matrix with rows too long whose first column is zero (elimination
\* would find it singular) is refused for its shape
C22_Witness ==
    /\ LinearCalled
    /\ Len(linA) = 2
    /\ Len(linB) = 2
    /\ Len(linA[1]) = 3
    /\ Len(linA[2]) = 3
    /\ linA[1][1] = Zero
    /\ linA[2][1] = Zero
    /\ result.status = "DimensionMismatch"

\* the largest |M[r][col]| over the rows r = col..n
LargestMagnitude(M, n, col) ==
    CHOOSE v \in {Abs(M[r][col]) : r \in col..n} :
        \A r \in col..n : ~Less(v, Abs(M[r][col]))

\* from column col on: the pivot row is at or below the diagonal and holds
\* the largest magnitude of the column; if that is zero the call fails with
\* SingularMatrix, otherwise the pivot row is on the diagonal and the column
\* is zero below it when the next column starts; after the last column the
\* call returns
RECURSIVE PivotedFrom(_, _, _)
PivotedFrom(M, n, col) ==
    IF col > n THEN result.status = "ok"
    ELSE LET p == Pivot(M, n, col)
             largest == LargestMagnitude(M, n, col)
             next == Eliminate(SwapRows(M, col, p[1]), n, col)
         IN  /\ p[1] \in col..n
             /\ Abs(M[p[1]][col]) = largest
             /\ IF IsZero(largest) THEN result.status = "SingularMatrix"
                ELSE /\ next[col] = M[p[1]]
                     /\ \A r \in (col + 1)..n : IsZero(next[r][col])
                     /\ PivotedFrom(next, n, col + 1)

\* C24: at each elimination column the pivot is a row at or below the
\* diagonal with the largest absolute value of the column in the current
\* matrix, it is on the diagonal when the rows below are eliminated, and the
\* solver fails with SingularMatrix exactly when that largest value is zero.
C24_PartialPivoting ==
    (LinearCalled /\ ~IllShaped) => PivotedFrom(Augment(linA, linB), Len(linA), 1)

\* a solved system of three equations with a row swap at the first and at
\* the second column, the second pivot not being the first nonzero entry
C24_Witness ==
    /\ LinearCalled
    /\ Len(linA) = 3
    /\ result.status = "ok"
    /\ LET M == Augment(linA, linB)
           p == Pivot(M, 3, 1)
           next == Eliminate(SwapRows(M, 1, p[1]), 3, 1)
       IN  /\ p[1] # 1
           /\ Pivot(next, 3, 2)[1] = 3
           /\ ~IsZero(next[2][2])

(* The checks of solveCircuitMNA *)

\* the circuit c passes the node-count, reference-node and resistor checks
\* under the options o
PassesChecks(c, o) ==
    /\ Len(c.nodes) >= 2
    /\ refNodeOf(c.nodes, o) \in Range(c.nodes)
    /\ \A i \in 1..Len(c.elements) : ~IsBadResistor(c.elements[i])

\* the assembled system of c is square of dimension N and z has length N,
\* for N the number of nodes other than the reference node plus the number
\* of voltage sources
SquareSystem(c, o) ==
    LET S == Assemble(c.nodes, c.elements, refNodeOf(c.nodes, o))
        N == Cardinality({p \in 1..Len(c.nodes) : c.nodes[p] # refNodeOf(c.nodes, o)})
                 + Cardinality({p \in 1..Len(c.elements) : c.elements[p].kind = "V"})
    IN  ~S.failed /\ IsSquareOf(S.A, S.z, N)

\* C23: no call of solveCircuitMNA or equivalentResistanceAB ends with
\* DimensionMismatch: for a circuit (and for the test circuit made of it)
\* that passes the node-count, reference-node and resistor checks the
\* assembled A is N x N and z has length N.
C23_NoDimensionMismatch ==
    /\ pc # "ready" => result.status # "DimensionMismatch"
    /\ PassesChecks(circuit, opts) => SquareSystem(circuit, opts)
    /\ PassesChecks(testCircuitOf(circuit, termA, termB), AutoOpts)
           => SquareSystem(testCircuitOf(circuit, termA, termB), AutoOpts)

\* a call that reached the linear solver with node rows, a source row and a
\* current source stamped into z
C23_Witness ==
    /\ pc = "solveCircuitMNA"
    /\ PassesChecks(circuit, opts)
    /\ Len(circuit.nodes) = 3
    /\ \E p, q \in 1..Len(circuit.elements) :
           circuit.elements[p].kind = "V" /\ circuit.elements[q].kind = "I"
    /\ Len(System.z) = 3
    /\ System.z[1] # Zero
    /\ result.status \in {"ok", "SingularMatrix"}

\* C29: solveCircuitMNA reports the first failing step of the fixed order
\* node count, reference node, resistor values, linear solve: fewer than 2
\* nodes give InsufficientNodes whatever the override, an override that is
\* no node gives InvalidReferenceNode whatever the resistors, a
\* non-positive resistor gives InvalidElement whatever the topology, and
\* only then the outcome is that of the linear solve.
C29_CheckOrder ==
    pc = "solveCircuitMNA" =>
        IF Len(circuit.nodes) < 2 THEN result = Err("InsufficientNodes")
        ELSE IF ExplicitRefAbsent THEN result = Err("InvalidReferenceNode")
        ELSE IF HasBadResistor(circuit) THEN result = Err("InvalidElement")
        ELSE /\ result.status \in {"ok", "SingularMatrix"}
             /\ result.status = solveLinearSystem(System.A, System.z).status

\* the three pairs of failures of the claim: one node with an invalid
\* override; an invalid override with a non-positive resistor; a
\* non-positive resistor in a circuit with a node that no element touches
C29_Witness ==
    /\ pc = "solveCircuitMNA"
    /\ \/ /\ Len(circuit.nodes) = 1
          /\ ExplicitRefAbsent
          /\ HasBadResistor(circuit)
          /\ result = Err("InsufficientNodes")
       \/ /\ Len(circuit.nodes) = 3
          /\ ExplicitRefAbsent
          /\ HasBadResistor(circuit)
          /\ result = Err("InvalidReferenceNode")
       \/ /\ Len(circuit.nodes) = 3
          /\ ~ExplicitRefAbsent
          /\ Len(circuit.elements) = 1
          /\ HasBadResistor(circuit)
          /\ result = Err("InvalidElement")

(* Endpoints and terminals that are no node of the circuit *)

IsNode(n) == n \in Range(circuit.nodes)
Outside(e) == ~IsNode(e.a) \/ ~IsNode(e.b)

\* the elements with every endpoint that is no node moved to the node ref
GroundedAt(n, ref) == IF IsNode(n) THEN n ELSE ref
Grounded(es, ref) ==
    [i \in 1..Len(es) |-> [es[i] EXCEPT !.a = GroundedAt(es[i].a, ref),
                                       !.b = GroundedAt(es[i].b, ref)]]

\* the voltage of n in the Solution, 0 for a name that is no node
VoltageAt(sol, n) == IF IsNode(n) THEN sol.V[n] ELSE NumZero

\* C30: an endpoint or terminal that is no node of circuit.nodes raises no
\* error of its own: the system is assembled as if the endpoint were the
\* reference node, a returned V has entries for the nodes only, the
\* resistor currents and voltageDiff read the voltage of such a name as 0,
\* and equivalentResistanceAB returns the magnitude so obtained.
C30_EndpointOutsideNodes ==
    /\ Stamped => System = Assemble(circuit.nodes, Grounded(circuit.elements, RefOfCall),
                                    RefOfCall)
    /\ Stamped => result.status \in {"ok", "SingularMatrix"}
    /\ Solved =>
           /\ DOMAIN result.V = Range(circuit.nodes)
           /\ \A p \in 1..Len(circuit.elements) :
                  LET e == circuit.elements[p]
                  IN  e.kind = "R" =>
                          result.I[e.id] = Div(Sub(VoltageAt(result, e.a),
                                                   VoltageAt(result, e.b)), e.ohms)
           /\ voltageDiff(result, termA, termB)
                  = Sub(VoltageAt(result, termA), VoltageAt(result, termB))
    /\ ReqReturned =>
           result.value = Abs(Sub(VoltageAt(TestSolution, termA),
                                  VoltageAt(TestSolution, termB)))

\* equivalentResistanceAB returns a nonzero number for a terminal that is
\* no node, in a circuit with an element that has such an endpoint
C30_Witness ==
    /\ ReqReturned
    /\ ~IsNode(termA)
    /\ \E p \in 1..Len(circuit.elements) :
           circuit.elements[p].kind = "R" /\ Outside(circuit.elements[p])
    /\ result.value # Zero

(* Calls in sequence *)

HeldSolves == {i \in DOMAIN calls : calls[i].fn = "solveCircuitMNA" /\ calls[i].held}

Hundredth == Div(Num(1), Num(100))
AbsErr(expected, got) == Abs(Sub(got, expected))
RelErr(expected, got) == Div(AbsErr(expected, got), Max(Tiny, Abs(expected)))

\* |got - expected| <= 0.01 or |got - expected| / max(1e-12, |expected|) <= 0.01
Accepts(expected, got) ==
    Leq(AbsErr(expected, got), Hundredth) \/ Leq(RelErr(expected, got), Hundredth)

\* the CheckResult r of a target judges the submitted value got against the
\* expected value: accepted exactly within a tolerance, so accepted when
\* equal and refused when beyond both tolerances
Judged(r, expected, got) ==
    /\ r.ok = Accepts(expected, got)
    /\ got = expected => r.ok
    /\ (Less(Hundredth, AbsErr(expected, got)) /\ Less(Hundredth, RelErr(expected, got)))
           => ~r.ok

ValidateReturned == pc = "validateAnswers" /\ result.status = "ok"
ValidatedSolution == calls[Len(calls)].args.sol

\* C27: with the default tolerances abs = 0.01 and rel = 0.01 the check of
\* each voltage target, current target and of req accepts the submitted
\* value exactly when |got - expected| <= abs or
\* |got - expected| / max(1e-12, |expected|) <= rel; so a target whose
\* submitted value is the Solution's own value is ok, and a target whose
\* submitted value is beyond both tolerances is not ok.
C27_AnswerCheck ==
    ValidateReturned =>
        /\ \A i \in 1..Len(targets.voltages) :
               LET q == targets.voltages[i]
               IN  q.id \in DOMAIN answers.voltages =>
                       Judged(result.voltages[q.id],
                              voltageDiff(ValidatedSolution, q.a, q.b),
                              answers.voltages[q.id])
        /\ \A i \in 1..Len(targets.currents) :
               LET q == targets.currents[i]
               IN  q.elementId \in DOMAIN answers.currents =>
                       Judged(result.currents[q.elementId],
                              ValidatedSolution.I[q.elementId],
                              answers.currents[q.elementId])
        /\ result.req # <<>> =>
               Judged(result.req[1],
                      equivalentResistanceAB(circuit, targets.req[1].A,
                                             targets.req[1].B).value,
                      answers.req[1])

\* a validation where a voltage is accepted by the relative tolerance alone,
\* a voltage whose expected value is 0 is accepted, and a current beyond both
\* tolerances is refused
C27_Witness ==
    /\ ValidateReturned
    /\ answers.voltages # EmptyRecord
    /\ answers.currents # EmptyRecord
    /\ \E i \in 1..Len(targets.voltages) :
           LET r == result.voltages[targets.voltages[i].id]
           IN  r.ok /\ Less(Hundredth, r.absErr) /\ Leq(r.relErr, Hundredth)
    /\ \E i \in 1..Len(targets.voltages) :
           LET r == result.voltages[targets.voltages[i].id]
           IN  r.ok /\ IsZero(r.expected)
    /\ \E i \in 1..Len(targets.currents) :
           LET r == result.currents[targets.currents[i].elementId]
           IN  ~r.ok /\ Less(Hundredth, r.absErr) /\ Less(Hundredth, r.relErr)

----------------------------------------------------------------------------

(* The shared link *)

\* expect(dec).toEqual(s): the same kind of value; strings and numbers are
\* the same value (Object.is: 0 and -0 differ); arrays have equal items;
\* objects have equal values under the same keys, a property whose value is
\* undefined counting as no property
DefinedKeys(v) ==
    {v.props[p].key : p \in {q \in 1..Len(v.props) : v.props[q].value.t # "undefined"}}
ValueAt(v, key) == v.props[CHOOSE p \in 1..Len(v.props) : v.props[p].key = key].value
RECURSIVE DeepEqual(_, _)
DeepEqual(x, y) ==
    IF x.t # y.t THEN FALSE
    ELSE IF x.t = "string" THEN x.s = y.s
    ELSE IF x.t = "number" THEN x.neg = y.neg /\ x.abs = y.abs /\ x.finite = y.finite
    ELSE IF x.t = "array"
         THEN /\ Len(x.items) = Len(y.items)
              /\ \A i \in 1..Len(x.items) : DeepEqual(x.items[i], y.items[i])
    ELSE IF x.t = "object"
         THEN /\ DefinedKeys(x) = DefinedKeys(y)
              /\ \A k \in DefinedKeys(x) : DeepEqual(ValueAt(x, k), ValueAt(y, k))
    ELSE TRUE

\* the text that encodeState returned
EncodedText == calls[1].outcome.value

\* C28: decodeState(encodeState(s)) is deep-equal to s for every AppState s,
\* and the encoded text contains none of the characters + / =.
C28_RoundTrip ==
    /\ pc = "decodeState" => result.status = "ok" /\ DeepEqual(result.value, appState)
    /\ calls # <<>> => \A i \in 1..Len(EncodedText) : EncodedText[i] \notin {43, 47, 61}

====
